---- MODULE Spec2Model ----
(***************************************************************************)
(* The Tier-2 portfolio engine of IronOreIndicator/CompositeStrategy       *)
(* (CompositeStrategy.py): RiskManager, DynamicLeverageManager,            *)
(* TrailingStopManager, Rebalancer and the CompositeStrategy orchestrator. *)
(*                                                                         *)
(* Numbers.  Python floats are modelled by exact integer arithmetic:       *)
(*   money            units of 10,000 CNY (initial capital = 100)          *)
(*   price            integer price points; one contract of basket b is    *)
(*                    worth price * MULTIPLIERS[b] hundredths of a money   *)
(*                    unit                                                 *)
(*   confidence,      hundredths (0 .. 100)                                *)
(*   signal_strength                                                       *)
(*   conviction       thousandths (0 .. 1000)                              *)
(*   size_pct         thousandths, rounded down                            *)
(*   leverage         hundredths, rounded down (100 = 1.0x)                *)
(*   trail_stops      hundredths of a price point                          *)
(*   ratios           (current_drawdown, daily_loss) records [n, d]        *)
(*                    compared by cross-multiplication                     *)
(***************************************************************************)
EXTENDS Integers, Sequences, FiniteSets, TLC

\* ------------------------------------------------------------------ bounds
MaxBars == 3            \* cycle boundaries explored

\* --------------------------------------------------------------- constants
BASKET_COUNT == 3
INITIAL_CAPITAL == 100
B == 0 .. (BASKET_COUNT - 1)

MULTIPLIERS == (0 :> 100) @@ (1 :> 5) @@ (2 :> 10)

Max(a, b) == IF a >= b THEN a ELSE b
Min(a, b) == IF a <= b THEN a ELSE b
Abs(a) == IF a >= 0 THEN a ELSE -a

\* a ratio n/d (d > 0) against p/q (q > 0)
RatioGE(r, p, q) == r.n * q >= p * r.d
RatioGT(r, p, q) == r.n * q > p * r.d
Zero == [n |-> 0, d |-> 1]
Ratio(n, d) == IF n = 0 THEN Zero ELSE [n |-> n, d |-> d]

\* ============================================================ RiskManager
max_total_exposure == 90        \* hundredths
max_portfolio_drawdown == 10    \* hundredths
max_daily_loss == 3             \* hundredths

RiskManagerInit(initial_capital) ==
  [ peak_portfolio_value |-> initial_capital,
    daily_start_value    |-> initial_capital,
    daily_loss           |-> Zero,
    current_drawdown     |-> Zero ]

update_daily_tracking(rm, portfolio_value) ==
  [rm EXCEPT !.daily_start_value = portfolio_value, !.daily_loss = Zero]

\* the drawdown taken against the peak as it was before the call
update_peak_tracking_stale_peak(rm, portfolio_value) ==
  [rm EXCEPT
     !.peak_portfolio_value = IF portfolio_value > rm.peak_portfolio_value
                              THEN portfolio_value ELSE rm.peak_portfolio_value,
     !.current_drawdown = Ratio(rm.peak_portfolio_value - portfolio_value,
                                rm.peak_portfolio_value),
     !.daily_loss = IF rm.daily_start_value > 0
                    THEN Ratio(rm.daily_start_value - portfolio_value,
                               rm.daily_start_value)
                    ELSE Zero]

update_peak_tracking(rm, portfolio_value) ==
  LET peak == IF portfolio_value > rm.peak_portfolio_value
              THEN portfolio_value ELSE rm.peak_portfolio_value
  IN [rm EXCEPT
        !.peak_portfolio_value = peak,
        !.current_drawdown = Ratio(peak - portfolio_value, peak),
        !.daily_loss = IF rm.daily_start_value > 0
                       THEN Ratio(rm.daily_start_value - portfolio_value,
                                  rm.daily_start_value)
                       ELSE Zero]

\* the exposure check rejecting an exposure of exactly the limit
can_enter_position_inclusive(rm, proposed_size, portfolio_state) ==
  LET over == IF portfolio_state.total_value > 0
              THEN portfolio_state.total_exposure * 100000 + proposed_size
                     >= max_total_exposure * portfolio_state.total_value * 1000
              ELSE FALSE
  IN IF over THEN "Total exposure exceeds limit"
     ELSE IF RatioGE(rm.current_drawdown, max_portfolio_drawdown, 100)
          THEN "Portfolio drawdown exceeds limit"
     ELSE IF RatioGE(rm.daily_loss, max_daily_loss, 100)
          THEN "Daily loss exceeds limit"
     ELSE "OK"

\* proposed_size is scaled by 10^5 (pv * size_pct * leverage); the result is
\* the reason string, "OK" when the entry is accepted
can_enter_position(rm, proposed_size, portfolio_state) ==
  LET over == IF portfolio_state.total_value > 0
              THEN portfolio_state.total_exposure * 100000 + proposed_size
                     > max_total_exposure * portfolio_state.total_value * 1000
              ELSE FALSE
  IN IF over THEN "Total exposure exceeds limit"
     ELSE IF RatioGE(rm.current_drawdown, max_portfolio_drawdown, 100)
          THEN "Portfolio drawdown exceeds limit"
     ELSE IF RatioGE(rm.daily_loss, max_daily_loss, 100)
          THEN "Daily loss exceeds limit"
     ELSE "OK"

\* ================================================= DynamicLeverageManager
leverage_tiers ==
  [ STRONG |-> [min |-> 400, max |-> 1000, multiplier |-> 1286],
    MEDIUM |-> [min |-> 250, max |-> 600,  multiplier |-> 1000],
    WEAK   |-> [min |-> 150, max |-> 400,  multiplier |-> 1000] ]

max_leverage == 2000
max_basket_leverage == 1500

\* the derates of calculate_leverage, in hundredths
chaos_derate(chaos_baskets) ==
  IF chaos_baskets >= 2 THEN 60 ELSE IF chaos_baskets = 1 THEN 80 ELSE 100
drawdown_derate(portfolio_dd) ==
  IF RatioGT(portfolio_dd, 5, 100) THEN 70
  ELSE IF RatioGT(portfolio_dd, 3, 100) THEN 85 ELSE 100
daily_loss_derate(daily_loss) ==
  IF RatioGT(daily_loss, 2, 100) THEN 60
  ELSE IF RatioGT(daily_loss, 1, 100) THEN 80 ELSE 100

\* the tier clamp of the base leverage
tier_clamp(conviction, tier) ==
  LET tier_params == IF tier \in DOMAIN leverage_tiers
                     THEN leverage_tiers[tier] ELSE leverage_tiers["WEAK"]
  IN Max(tier_params.min,
         Min(100 + (conviction * tier_params.multiplier) \div 1000, tier_params.max))

\* calculate_leverage without its 1.0 floor
calculate_leverage_unfloored(conviction, tier, chaos_baskets, portfolio_dd, daily_loss) ==
  Min((((((tier_clamp(conviction, tier) * chaos_derate(chaos_baskets)) \div 100)
           * drawdown_derate(portfolio_dd)) \div 100)
           * daily_loss_derate(daily_loss)) \div 100,
      Min(max_basket_leverage, max_leverage))

\* conviction in thousandths, portfolio_dd and daily_loss ratios
calculate_leverage(conviction, tier, chaos_baskets, portfolio_dd, daily_loss) ==
  Min(Max(100,
          (((((tier_clamp(conviction, tier) * chaos_derate(chaos_baskets)) \div 100)
               * drawdown_derate(portfolio_dd)) \div 100)
               * daily_loss_derate(daily_loss)) \div 100),
      Min(max_basket_leverage, max_leverage))

\* the widest stop for every leverage
get_stop_loss_flat(leverage) == 30

\* stop-loss in thousandths
get_stop_loss(leverage) ==
  IF leverage <= 200 THEN 30
  ELSE IF leverage <= 400 THEN 25
  ELSE IF leverage <= 600 THEN 20
  ELSE IF leverage <= 1000 THEN 15
  ELSE 10

\* profit target in hundredths
get_profit_target(leverage) ==
  IF leverage >= 500 THEN 7
  ELSE IF leverage >= 300 THEN 8
  ELSE 10

\* position_value scaled by 10^5, contract_size in hundredths of a money
\* unit, size_pct in thousandths; basket_pv * size_pct > 0 is the caller's
\* reachable case (a zero product divides by zero in the source)
ensure_minimum_contracts(position_value, contract_size, basket_pv, size_pct, min_contracts) ==
  LET min_position_value == contract_size * min_contracts
  IN IF position_value >= min_position_value * 1000
     THEN position_value \div (basket_pv * size_pct)
     ELSE Min((min_position_value * 1000) \div (basket_pv * size_pct), max_leverage)

\* ==================================================== TrailingStopManager
activation_leverage == 500
activation_profit == 5      \* hundredths
trail_distance == 2         \* hundredths

TrailingStopManagerInit ==
  [ peak_prices     |-> [b \in B |-> 0],
    trailing_active |-> [b \in B |-> FALSE],
    trail_stops     |-> [b \in B |-> 0] ]

\* pnl_pct is a ratio [n, d]
TrailingStopManager_update(ts, basket_idx, current_price, entry_price, position_type, leverage, pnl_pct) ==
  LET activate == /\ leverage >= activation_leverage
                  /\ RatioGE(pnl_pct, activation_profit, 100)
                  /\ ~ts.trailing_active[basket_idx]
      t1 == IF activate
            THEN [ts EXCEPT !.trailing_active[basket_idx] = TRUE,
                            !.peak_prices[basket_idx] = current_price]
            ELSE ts
  IN IF ~t1.trailing_active[basket_idx] THEN t1
     ELSE IF position_type = 1
     THEN IF current_price > t1.peak_prices[basket_idx]
          THEN [t1 EXCEPT !.peak_prices[basket_idx] = current_price,
                          !.trail_stops[basket_idx] =
                              current_price * (100 - trail_distance)]
          ELSE t1
     ELSE IF \/ current_price < t1.peak_prices[basket_idx]
             \/ t1.peak_prices[basket_idx] = 0
          THEN [t1 EXCEPT !.peak_prices[basket_idx] = current_price,
                          !.trail_stops[basket_idx] =
                              current_price * (100 + trail_distance)]
          ELSE t1

TrailingStopManager_check(ts, basket_idx, current_price, position_type) ==
  IF ~ts.trailing_active[basket_idx] THEN FALSE
  ELSE IF position_type = 1
       THEN current_price * 100 <= ts.trail_stops[basket_idx]
       ELSE current_price * 100 >= ts.trail_stops[basket_idx]

TrailingStopManager_reset(ts, basket_idx) ==
  [ts EXCEPT !.peak_prices[basket_idx] = 0,
             !.trailing_active[basket_idx] = FALSE,
             !.trail_stops[basket_idx] = 0]

\* ============================================================== Rebalancer
rebalance_frequency == 96
rebalance_threshold == 10   \* hundredths

RebalancerInit == [last_rebalance_bar |-> 0]

\* allocations are ratios [n, d] (basket pv over portfolio pv)
Deviates(alloc, target_pct) ==
  Abs(alloc.n * 100 - target_pct * alloc.d) > rebalance_threshold * alloc.d

\* the time trigger one bar late
should_rebalance_late(rb, current_bar, current_allocations, target_allocations) ==
  \/ current_bar - rb.last_rebalance_bar > rebalance_frequency
  \/ \E i \in DOMAIN current_allocations :
        Deviates(current_allocations[i], target_allocations[i])

should_rebalance(rb, current_bar, current_allocations, target_allocations) ==
  LET bars_since_rebalance == current_bar - rb.last_rebalance_bar
      time_trigger == bars_since_rebalance >= rebalance_frequency
      deviation_trigger ==
        \E i \in DOMAIN current_allocations :
           Deviates(current_allocations[i], target_allocations[i])
  IN time_trigger \/ deviation_trigger

\* the 'value' of an action: abs(deviation * portfolio_value)
adjustment_value(alloc, target_pct, portfolio_value) ==
  Abs((alloc.n * 100 - target_pct * alloc.d) * portfolio_value) \div (100 * alloc.d)

\* every deviating basket gets the opposite action
calculate_rebalance_actions_swapped(current_allocations, target_allocations, portfolio_value) ==
  [ i \in DOMAIN current_allocations |->
      IF Deviates(current_allocations[i], target_allocations[i])
      THEN [ type  |-> IF current_allocations[i].n * 100
                            > target_allocations[i] * current_allocations[i].d
                       THEN "increase" ELSE "reduce",
             value |-> adjustment_value(current_allocations[i],
                                        target_allocations[i], portfolio_value) ]
      ELSE [type |-> "", value |-> 0] ]

\* the advisory action per basket: type "reduce" or "increase" with its
\* value, or type "" for a basket the returned dict has no entry for
calculate_rebalance_actions(current_allocations, target_allocations, portfolio_value) ==
  [ i \in DOMAIN current_allocations |->
      IF Deviates(current_allocations[i], target_allocations[i])
      THEN [ type  |-> IF current_allocations[i].n * 100
                            > target_allocations[i] * current_allocations[i].d
                       THEN "reduce" ELSE "increase",
             value |-> adjustment_value(current_allocations[i],
                                        target_allocations[i], portfolio_value) ]
      ELSE [type |-> "", value |-> 0] ]

\* ======================================================= CompositeStrategy
None == 0                 \* timetag before the first record
target_basket_pct == 30   \* hundredths

RECURSIVE SumOver(_, _)
SumOver(f, S) ==
  IF S = {} THEN 0
  ELSE LET x == CHOOSE y \in S : TRUE IN f[x] + SumOver(f, S \ {x})

\* what the last on_bar call did (observation only; no code path reads it)
EmptyLog ==
  [ cycle       |-> FALSE,                 \* _on_cycle_pass ran
    tripped     |-> FALSE,                 \* _check_circuit_breakers returned True
    closed      |-> [b \in B |-> -1],      \* price of an emergency close, or -1
    evaluated   |-> {},                    \* baskets _should_exit was called for
    exit_reason |-> [b \in B |-> ""],      \* reason _should_exit returned
    ts_before   |-> TrailingStopManagerInit,  \* trailing state before update
    ts_after    |-> TrailingStopManagerInit,  \* trailing state right after update
    ts_type     |-> [b \in B |-> 0],       \* position_type given to update
    attempts    |-> [b \in B |-> << >>],   \* <<size_pct, leverage, reason>> per risk check
    fit         |-> [b \in B |-> 0],       \* leverage given to _fit_position
    direction   |-> [b \in B |-> 0],       \* direction given to _signal at entry
    processed   |-> FALSE,                 \* _process_trading_signals ran
    rebalance_checked |-> FALSE,           \* _check_and_rebalance ran
    rebalanced  |-> FALSE,                 \* the rebalance triggered
    actions     |-> [b \in B |-> [type |-> "", value |-> 0]],  \* actions logged
    metrics     |-> FALSE,                 \* _update_portfolio_metrics ran
    raised      |-> "" ]                   \* the error the cycle raised, if any

CompositeStrategyInit(initial_cash) ==
  [ timetag    |-> None,
    bar_index  |-> 0,
    strategies |-> [b \in B |->
                      [ signal   |-> 0,
                        pv       |-> (initial_cash * target_basket_pct) \div 100,
                        price    |-> 0,
                        leverage |-> 100 ]],
    cash       |-> initial_cash
                     - BASKET_COUNT * ((initial_cash * target_basket_pct) \div 100),
    pv         |-> initial_cash,
    tier1_signals |-> << >>,
    risk_manager  |-> RiskManagerInit(initial_cash),
    rebalancer    |-> RebalancerInit,
    trailing_stop_manager |-> TrailingStopManagerInit,
    entry_prices     |-> [b \in B |-> 0],
    active_leverages |-> [b \in B |-> 100],
    total_trades_executed |-> 0,
    total_trades_closed   |-> 0,
    \* output fields
    active_positions           |-> 0,
    portfolio_exposure_pct     |-> 0,
    cash_reserve_pct           |-> 0,
    leverage_weighted_exposure |-> 0,
    avg_active_leverage        |-> 100,
    initialized   |-> FALSE,
    basket_pv     |-> [b \in B |-> 0],
    basket_signal |-> [b \in B |-> 0],
    basket_price  |-> [b \in B |-> 0],
    \* return value of the last on_bar call and what it did
    results |-> << >>,
    log     |-> EmptyLog ]

InPosition(s) == {b \in B : s.strategies[b].signal # 0}
BasketPv(s) == [b \in B |-> s.strategies[b].pv]

\* the base class's hooks: _signal records the direction, _fit_position the
\* leverage, _sync the portfolio value
basket_signal(s, b, price, direction) ==
  [s EXCEPT !.strategies[b].signal = direction]
basket_fit_position(s, b, leverage) ==
  [s EXCEPT !.strategies[b].leverage = leverage]
_sync(s) == [s EXCEPT !.pv = SumOver(BasketPv(s), B) + s.cash]

\* super()._on_cycle_pass: baskets holding a position are marked to market
\* (their new value is the environment's choice), flat baskets keep theirs
base_on_cycle_pass(s, newpv) ==
  _sync([s EXCEPT !.strategies =
           [b \in B |-> IF s.strategies[b].signal # 0
                        THEN [s.strategies[b] EXCEPT !.pv = newpv[b]]
                        ELSE s.strategies[b]]])

_get_contract_size(s, basket_idx) ==
  LET price == IF basket_idx \in DOMAIN s.tier1_signals
               THEN s.tier1_signals[basket_idx].close
               ELSE s.strategies[basket_idx].price
  IN IF price <= 0 THEN 0 ELSE price * MULTIPLIERS[basket_idx]

\* the breaker that looks at the drawdown only
_check_circuit_breakers_drawdown_only(s) ==
  RatioGE(s.risk_manager.current_drawdown, max_portfolio_drawdown, 100)

\* the breaker with strict comparisons
_check_circuit_breakers_strict(s) ==
  \/ RatioGT(s.risk_manager.current_drawdown, max_portfolio_drawdown, 100)
  \/ RatioGT(s.risk_manager.daily_loss, max_daily_loss, 100)

_check_circuit_breakers(s) ==
  \/ RatioGE(s.risk_manager.current_drawdown, max_portfolio_drawdown, 100)
  \/ RatioGE(s.risk_manager.daily_loss, max_daily_loss, 100)

RECURSIVE EmergencyCloseFrom(_, _)
EmergencyCloseFrom(s, basket_idx) ==
  IF basket_idx >= BASKET_COUNT THEN s
  ELSE IF s.strategies[basket_idx].signal # 0
  THEN LET close_price == IF basket_idx \in DOMAIN s.tier1_signals
                          THEN s.tier1_signals[basket_idx].close
                          ELSE s.strategies[basket_idx].price
           s1 == basket_signal(s, basket_idx, close_price, 0)
       IN EmergencyCloseFrom(
            [s1 EXCEPT !.entry_prices[basket_idx] = 0,
                       !.log.closed[basket_idx] = close_price],
            basket_idx + 1)
  ELSE EmergencyCloseFrom(s, basket_idx + 1)

_emergency_close_all_positions(s) == EmergencyCloseFrom(s, 0)

Conviction(signal_data) ==
  signal_data.confidence * 6 + signal_data.signal_strength * 4

ChaosBaskets(s) ==
  Cardinality({b \in DOMAIN s.tier1_signals : s.tier1_signals[b].regime = 4})

_should_enter(signal_data) ==
  /\ signal_data.signal # 0
  /\ ~(signal_data.confidence < 20)
  /\ ~(signal_data.signal_strength < 15)

\* stop_loss_pct in thousandths
_check_stop_loss(entry_price, current_price, position_type, stop_loss_pct) ==
  IF entry_price = 0 \/ current_price = 0 THEN FALSE
  ELSE IF position_type = 1
       THEN (entry_price - current_price) * 1000 >= stop_loss_pct * entry_price
       ELSE (current_price - entry_price) * 1000 >= stop_loss_pct * entry_price

PnlPct(entry_price, current_price, position_type) ==
  IF entry_price > 0 /\ current_price > 0
  THEN IF position_type = 1
       THEN [n |-> current_price - entry_price, d |-> entry_price]
       ELSE [n |-> entry_price - current_price, d |-> entry_price]
  ELSE Zero

Losing1Pct(pnl_pct) == pnl_pct.n * 100 < (-1) * pnl_pct.d

\* the exit decision with the signal reversal tested before the stop-loss
ExitReason_reversal_first(s, basket_idx, signal_data, pnl_pct) ==
  LET basket == s.strategies[basket_idx]
      entry_price == s.entry_prices[basket_idx]
      current_price == signal_data.close
      leverage == s.active_leverages[basket_idx]
  IN IF TrailingStopManager_check(s.trailing_stop_manager, basket_idx,
                                  current_price, basket.signal)
     THEN "trailing_stop"
     ELSE IF RatioGE(pnl_pct, get_profit_target(leverage), 100)
     THEN "profit_target"
     ELSE IF RatioGE(pnl_pct, 5, 100) /\ Conviction(signal_data) < 400
     THEN "profit_protect_5pct"
     ELSE IF signal_data.signal * basket.signal < 0
     THEN "signal_reversal"
     ELSE IF _check_stop_loss(entry_price, current_price, basket.signal,
                              get_stop_loss(leverage))
     THEN "stop_loss"
     ELSE IF signal_data.confidence < 20
     THEN "low_confidence"
     ELSE IF signal_data.confidence < 30 /\ Losing1Pct(pnl_pct)
     THEN "confidence_drop_with_loss"
     ELSE IF ChaosBaskets(s) >= 2 /\ Losing1Pct(pnl_pct)
     THEN "chaos_regime_exit"
     ELSE ""

\* the exit decision on the state whose trailing stop has been updated:
\* the reason, "" when the position stays
ExitReason(s, basket_idx, signal_data, pnl_pct) ==
  LET basket == s.strategies[basket_idx]
      entry_price == s.entry_prices[basket_idx]
      current_price == signal_data.close
      leverage == s.active_leverages[basket_idx]
  IN IF TrailingStopManager_check(s.trailing_stop_manager, basket_idx,
                                  current_price, basket.signal)
     THEN "trailing_stop"
     ELSE IF RatioGE(pnl_pct, get_profit_target(leverage), 100)
     THEN "profit_target"
     ELSE IF RatioGE(pnl_pct, 5, 100) /\ Conviction(signal_data) < 400
     THEN "profit_protect_5pct"
     ELSE IF _check_stop_loss(entry_price, current_price, basket.signal,
                              get_stop_loss(leverage))
     THEN "stop_loss"
     ELSE IF signal_data.signal * basket.signal < 0
     THEN "signal_reversal"
     ELSE IF signal_data.confidence < 20
     THEN "low_confidence"
     ELSE IF signal_data.confidence < 30 /\ Losing1Pct(pnl_pct)
     THEN "confidence_drop_with_loss"
     ELSE IF ChaosBaskets(s) >= 2 /\ Losing1Pct(pnl_pct)
     THEN "chaos_regime_exit"
     ELSE ""

\* _should_exit after the trailing-stop update: ts is the updated manager
should_exit_decide(s, basket_idx, signal_data, pnl_pct, ts, reason) ==
  [ exit_reason |-> reason,
    state |->
      [s EXCEPT
         !.trailing_stop_manager = ts,
         !.log.evaluated = @ \cup {basket_idx},
         !.log.ts_before.peak_prices[basket_idx] =
             s.trailing_stop_manager.peak_prices[basket_idx],
         !.log.ts_before.trailing_active[basket_idx] =
             s.trailing_stop_manager.trailing_active[basket_idx],
         !.log.ts_before.trail_stops[basket_idx] =
             s.trailing_stop_manager.trail_stops[basket_idx],
         !.log.ts_after.peak_prices[basket_idx] = ts.peak_prices[basket_idx],
         !.log.ts_after.trailing_active[basket_idx] = ts.trailing_active[basket_idx],
         !.log.ts_after.trail_stops[basket_idx] = ts.trail_stops[basket_idx],
         !.log.ts_type[basket_idx] = s.strategies[basket_idx].signal,
         !.log.exit_reason[basket_idx] = reason] ]

should_exit_update(s, basket_idx, signal_data, pnl_pct, ts) ==
  should_exit_decide(s, basket_idx, signal_data, pnl_pct, ts,
                     ExitReason([s EXCEPT !.trailing_stop_manager = ts],
                                basket_idx, signal_data, pnl_pct))

should_exit_pnl(s, basket_idx, signal_data, pnl_pct) ==
  should_exit_update(s, basket_idx, signal_data, pnl_pct,
    TrailingStopManager_update(
      s.trailing_stop_manager, basket_idx, signal_data.close,
      s.entry_prices[basket_idx], s.strategies[basket_idx].signal,
      s.active_leverages[basket_idx], pnl_pct))

\* _should_exit: updates the trailing stop, then decides.  The result is
\* [exit_reason, state]; should_exit is exit_reason # ""
_should_exit(s, basket_idx, signal_data) ==
  should_exit_pnl(s, basket_idx, signal_data,
                  PnlPct(s.entry_prices[basket_idx], signal_data.close,
                         s.strategies[basket_idx].signal))

_execute_exit(s, basket_idx, signal_data) ==
  LET basket == s.strategies[basket_idx]
      exit_price == IF basket.price > 0 THEN basket.price ELSE signal_data.close
      s1 == basket_signal(s, basket_idx, exit_price, 0)
  IN [s1 EXCEPT
        !.entry_prices[basket_idx] = 0,
        !.active_leverages[basket_idx] = 100,
        !.trailing_stop_manager =
            TrailingStopManager_reset(s1.trailing_stop_manager, basket_idx),
        !.total_trades_closed = @ + 1]

_get_portfolio_state(s) ==
  [ total_value    |-> s.pv,
    total_exposure |-> SumOver(BasketPv(s), InPosition(s)),
    cash           |-> s.cash ]

\* one evaluation of the risk gate inside _execute_entry: the attempt is
\* appended to the trace and the reason kept
RiskChecked(a, size_pct, leverage, reason) ==
  [ size_pct |-> size_pct,
    leverage |-> leverage,
    reason   |-> reason,
    attempts |-> Append(a.attempts, <<size_pct, leverage, reason>>) ]

RiskCheck(s, basket_idx, a, size_pct, leverage) ==
  RiskChecked(a, size_pct, leverage,
              can_enter_position(
                s.risk_manager,
                s.strategies[basket_idx].pv * size_pct * leverage,
                _get_portfolio_state(s)))

\* tier sizing: <<size_pct, tier_name>> before the chaos reduction
TierSizing(conviction) ==
  IF conviction >= 550
  THEN [size_pct |-> 800 + ((conviction - 550) * 44) \div 100, tier_name |-> "STRONG"]
  ELSE IF conviction >= 350
  THEN [size_pct |-> 400 + ((conviction - 350) * 100) \div 100, tier_name |-> "MEDIUM"]
  ELSE [size_pct |-> 200 + ((conviction - 200) * 67) \div 100, tier_name |-> "WEAK"]

\* the fallback chain of _execute_entry, from the first risk check on:
\* fallback 3 (minimum size at 1.0x), fallback 2 (leverage 1.1x), fallback 1
\* (size reduced by 40%)
Fallback3(s, basket_idx, a2) ==
  IF a2.reason # "OK" THEN RiskCheck(s, basket_idx, a2, 200, 100) ELSE a2

Fallback2(s, basket_idx, a1) ==
  Fallback3(s, basket_idx,
            IF a1.reason # "OK" /\ a1.leverage > 110
            THEN RiskCheck(s, basket_idx, a1, a1.size_pct, 110) ELSE a1)

Fallback1(s, basket_idx, a0) ==
  IF a0.reason = "OK" THEN a0
  ELSE Fallback2(s, basket_idx,
                 IF a0.reason \in {"Total exposure exceeds limit",
                                   "Portfolio drawdown exceeds limit"}
                 THEN RiskCheck(s, basket_idx, a0, (a0.size_pct * 60) \div 100,
                                a0.leverage)
                 ELSE a0)

FallbackChain(s, basket_idx, size_pct, leverage) ==
  Fallback1(s, basket_idx,
            RiskCheck(s, basket_idx, [attempts |-> << >>], size_pct, leverage))

\* the trade applied whatever the risk gate answered
entry_apply_ungated(s, basket_idx, signal_data, a, trade_price) ==
  basket_signal(
    basket_fit_position(
      [s EXCEPT !.log.attempts[basket_idx] = a.attempts,
                !.entry_prices[basket_idx] = trade_price,
                !.active_leverages[basket_idx] = a.leverage,
                !.total_trades_executed = @ + 1,
                !.log.fit[basket_idx] = a.leverage,
                !.log.direction[basket_idx] = signal_data.signal * (-1)],
      basket_idx, a.leverage),
    basket_idx, trade_price, signal_data.signal * (-1))

\* the end of _execute_entry: a is the outcome of the risk gate
entry_apply(s, basket_idx, signal_data, a, trade_price) ==
  IF a.reason # "OK" THEN [s EXCEPT !.log.attempts[basket_idx] = a.attempts]
  ELSE basket_signal(
         basket_fit_position(
           [s EXCEPT !.log.attempts[basket_idx] = a.attempts,
                     !.entry_prices[basket_idx] = trade_price,
                     !.active_leverages[basket_idx] = a.leverage,
                     !.total_trades_executed = @ + 1,
                     !.log.fit[basket_idx] = a.leverage,
                     !.log.direction[basket_idx] = signal_data.signal * (-1)],
           basket_idx, a.leverage),
         basket_idx, trade_price, signal_data.signal * (-1))

\* the minimum-contract step of _execute_entry: the leverage submitted first
entry_leverage(basket_pv, size_pct, smart, contract_size, required_leverage) ==
  IF /\ contract_size > 0
     /\ basket_pv * size_pct * smart < contract_size * 1000
     /\ required_leverage <= max_leverage
  THEN required_leverage ELSE smart

\* the division of ensure_minimum_contracts is by basket_pv * size_pct: a
\* zero product raises ZeroDivisionError out of _execute_entry
entry_raises(basket_pv, size_pct, smart, contract_size) ==
  /\ contract_size > 0
  /\ basket_pv * size_pct * smart < contract_size * 1000
  /\ basket_pv * size_pct = 0

entry_levered(s, basket_idx, signal_data, size_pct, smart, contract_size) ==
  IF entry_raises(s.strategies[basket_idx].pv, size_pct, smart, contract_size)
  THEN [s EXCEPT !.log.raised = "ZeroDivisionError"]
  ELSE
  entry_apply(s, basket_idx, signal_data,
    FallbackChain(s, basket_idx, size_pct,
      entry_leverage(s.strategies[basket_idx].pv, size_pct, smart, contract_size,
        ensure_minimum_contracts(s.strategies[basket_idx].pv * size_pct * smart,
                                 contract_size, s.strategies[basket_idx].pv,
                                 size_pct, 1))),
    IF s.strategies[basket_idx].price > 0
    THEN s.strategies[basket_idx].price ELSE signal_data.close)

entry_sized(s, basket_idx, signal_data, conviction, tier, chaos_baskets) ==
  entry_levered(s, basket_idx, signal_data,
    IF chaos_baskets >= 2 THEN (tier.size_pct * 70) \div 100 ELSE tier.size_pct,
    calculate_leverage(conviction, tier.tier_name, chaos_baskets,
                       s.risk_manager.current_drawdown,
                       s.risk_manager.daily_loss),
    _get_contract_size(s, basket_idx))

_execute_entry(s, basket_idx, signal_data) ==
  entry_sized(s, basket_idx, signal_data, Conviction(signal_data),
              TierSizing(Conviction(signal_data)), ChaosBaskets(s))

\* the exit branch without its 'continue': the entry check follows the exit
process_decision_reenter(basket_idx, signal_data, r) ==
  IF r.exit_reason # "" /\ _should_enter(signal_data)
  THEN _execute_entry(_execute_exit(r.state, basket_idx, signal_data),
                      basket_idx, signal_data)
  ELSE IF r.exit_reason # ""
  THEN _execute_exit(r.state, basket_idx, signal_data)
  ELSE IF r.state.strategies[basket_idx].signal = 0 /\ _should_enter(signal_data)
  THEN _execute_entry(r.state, basket_idx, signal_data)
  ELSE r.state

\* the body of the loop of _process_trading_signals for one basket; r is
\* the outcome of _should_exit when the basket is in position
process_decision(basket_idx, signal_data, r) ==
  IF r.exit_reason # ""
  THEN _execute_exit(r.state, basket_idx, signal_data)
  ELSE IF r.state.strategies[basket_idx].signal = 0 /\ _should_enter(signal_data)
  THEN _execute_entry(r.state, basket_idx, signal_data)
  ELSE r.state

ProcessBasket(s, basket_idx) ==
  IF basket_idx \notin DOMAIN s.tier1_signals THEN s
  ELSE process_decision(basket_idx, s.tier1_signals[basket_idx],
         IF s.strategies[basket_idx].signal # 0
         THEN _should_exit(s, basket_idx, s.tier1_signals[basket_idx])
         ELSE [exit_reason |-> "", state |-> s])

RECURSIVE ProcessFrom(_, _)
ProcessFrom(s, basket_idx) ==
  IF basket_idx >= BASKET_COUNT \/ s.log.raised # "" THEN s
  ELSE ProcessFrom(ProcessBasket(s, basket_idx), basket_idx + 1)

_process_trading_signals(s) == ProcessFrom([s EXCEPT !.log.processed = TRUE], 0)

_get_current_allocations(s) ==
  [b \in B |-> IF s.pv > 0 THEN [n |-> s.strategies[b].pv, d |-> s.pv] ELSE Zero]

target_allocations == [b \in B |-> 25]

\* the actions are computed and logged, nothing is traded
_execute_rebalance(s, current_allocations, target) ==
  [s EXCEPT !.log.actions =
     calculate_rebalance_actions(current_allocations, target, s.pv)]

_check_and_rebalance(s) ==
  LET hit == should_rebalance(s.rebalancer, s.bar_index,
                              _get_current_allocations(s), target_allocations)
      s1 == [s EXCEPT !.log.rebalance_checked = TRUE, !.log.rebalanced = hit]
  IN IF hit
     THEN [_execute_rebalance(s1, _get_current_allocations(s), target_allocations)
             EXCEPT !.rebalancer.last_rebalance_bar = s.bar_index]
     ELSE s1

\* sum(pos['value'] / pos['leverage']) / portfolio_value, in 1/10000
check_leverage_weighted_exposure(s, positions, portfolio_value) ==
  IF portfolio_value <= 0 THEN 0
  ELSE SumOver([b \in B |-> IF s.active_leverages[b] > 0
                            THEN (s.strategies[b].pv * 1000000) \div s.active_leverages[b]
                            ELSE 0],
               positions) \div portfolio_value

_update_portfolio_metrics(s) ==
  LET active == InPosition(s)
  IN [s EXCEPT
        !.active_positions = Cardinality(active),
        !.portfolio_exposure_pct =
            IF s.pv > 0 THEN (SumOver(BasketPv(s), B) * 10000) \div s.pv ELSE 0,
        !.cash_reserve_pct = IF s.pv > 0 THEN (s.cash * 10000) \div s.pv ELSE 0,
        !.leverage_weighted_exposure =
            check_leverage_weighted_exposure(s, active, s.pv),
        !.avg_active_leverage =
            IF active # {}
            THEN SumOver(s.active_leverages, active) \div Cardinality(active)
            ELSE 100,
        !.basket_pv = BasketPv(s),
        !.basket_signal = [b \in B |-> s.strategies[b].signal],
        !.basket_price = [b \in B |-> s.strategies[b].price],
        !.log.metrics = TRUE]

\* _on_cycle_pass after the trading signals: nothing more runs once an
\* error was raised
on_cycle_pass_processed(s2) ==
  IF s2.log.raised # "" THEN s2
  ELSE [_sync(_update_portfolio_metrics(_check_and_rebalance(s2)))
          EXCEPT !.initialized = TRUE]

\* _on_cycle_pass after the risk update
on_cycle_pass_checked(s1) ==
  IF _check_circuit_breakers(s1)
  THEN _emergency_close_all_positions([s1 EXCEPT !.log.tripped = TRUE])
  ELSE on_cycle_pass_processed(_process_trading_signals(s1))

\* _on_cycle_pass after the base class's cycle processing
on_cycle_pass_tracked(s0) ==
  on_cycle_pass_checked(
    [s0 EXCEPT !.risk_manager = update_peak_tracking(s0.risk_manager, s0.pv)])

\* newpv: the mark-to-market values the base class computes this cycle
_on_cycle_pass(s, newpv) ==
  on_cycle_pass_tracked(base_on_cycle_pass([s EXCEPT !.log.cycle = TRUE], newpv))

\* the output record: the exported fields
sv_copy(s) ==
  [ bar_index        |-> s.bar_index,
    active_positions |-> s.active_positions,
    portfolio_exposure_pct     |-> s.portfolio_exposure_pct,
    cash_reserve_pct           |-> s.cash_reserve_pct,
    leverage_weighted_exposure |-> s.leverage_weighted_exposure,
    avg_active_leverage        |-> s.avg_active_leverage,
    basket_pv     |-> s.basket_pv,
    basket_signal |-> s.basket_signal,
    basket_price  |-> s.basket_price ]

_process_tier1_signal(s, bar) ==
  LET data == [ close           |-> bar.close,
                signal          |-> bar.signal,
                confidence      |-> bar.confidence,
                regime          |-> bar.regime,
                signal_strength |-> bar.signal_strength ]
      s1 == [s EXCEPT !.tier1_signals =
               [x \in (DOMAIN s.tier1_signals) \cup {bar.basket} |->
                  IF x = bar.basket THEN data ELSE s.tier1_signals[x]]]
  IN IF bar.close > 0 THEN [s1 EXCEPT !.strategies[bar.basket].price = bar.close]
     ELSE s1

\* super().on_bar for a market-data record: the quote reaches its basket
base_on_bar(s, bar) == [s EXCEPT !.strategies[bar.basket].price = bar.close]

\* on_bar after the cycle has been processed: the record is emitted
on_bar_emit(s1, bar) ==
  IF s1.log.raised # "" THEN s1 ELSE
  [s1 EXCEPT !.results = IF s1.bar_index > 0 THEN <<sv_copy(s1)>> ELSE << >>,
             !.timetag = bar.tm,
             !.bar_index = @ + 1]

\* on_bar once the time tag is initialised
on_bar_routed(s0, bar, newpv) ==
  IF s0.timetag < bar.tm THEN on_bar_emit(_on_cycle_pass(s0, newpv), bar)
  ELSE IF bar.ns = "global" THEN base_on_bar(s0, bar)
  ELSE _process_tier1_signal(s0, bar)

on_bar(s, bar, newpv) ==
  on_bar_routed([s EXCEPT !.timetag = IF s.timetag = None THEN bar.tm ELSE @,
                          !.log = EmptyLog,
                          !.results = << >>],
                bar, newpv)

\* the day's start taken as the new peak as well
on_tradeday_begin_new_peak(s) ==
  [s EXCEPT !.risk_manager =
     [update_daily_tracking(s.risk_manager, s.pv) EXCEPT
        !.peak_portfolio_value = s.pv]]

\* the day's start taken together with a reset of the peak and the drawdown
on_tradeday_begin_reset_peak(s) ==
  [s EXCEPT !.risk_manager =
     [update_daily_tracking(s.risk_manager, s.pv) EXCEPT
        !.peak_portfolio_value = s.pv, !.current_drawdown = Zero]]

on_tradeday_begin(s) ==
  [s EXCEPT !.risk_manager = update_daily_tracking(s.risk_manager, s.pv)]

on_tradeday_end(s) == s

\* what a stopped and resumed process starts from: the exported fields and
\* the baskets come back from the persisted record, everything __init__
\* builds as a plain attribute is built anew
Restore(s) ==
  [s EXCEPT
     !.tier1_signals = << >>,
     !.total_trades_executed = 0,
     !.total_trades_closed = 0,
     !.initialized = FALSE,
     !.risk_manager = RiskManagerInit(INITIAL_CAPITAL),
     !.rebalancer = RebalancerInit,
     !.trailing_stop_manager = TrailingStopManagerInit,
     !.entry_prices = [b \in B |-> 0],
     !.active_leverages = [b \in B |-> 100]]

\* ================================================================== inputs
BigPv == 700
PvSet == {20, 28, 30, 33}

Tier1(basket, signal, confidence, signal_strength, regime, close) ==
  [ns |-> "private", basket |-> basket, close |-> close, signal |-> signal,
   confidence |-> confidence, regime |-> regime,
   signal_strength |-> signal_strength]

\* the upstream-signal records the environment may deliver
Tier1Menu ==
  { Tier1(0, -1, 50, 30, 2, 100),
    Tier1(0,  1, 50, 30, 1, 100),
    Tier1(0, -1, 90, 90, 2, 100),
    Tier1(0,  1, 90, 90, 1, 105),
    Tier1(0,  1, 90, 90, 1, 106),
    Tier1(0,  1, 90, 90, 1, 95),
    Tier1(0,  1, 25, 20, 4, 98),
    Tier1(0,  1, 90, 90, 4, 98),
    Tier1(0,  0, 15, 90, 3, 100),
    Tier1(1,  1, 90, 90, 4, 100) }

\* the raw-market records the environment may deliver
QuoteMenu ==
  { [ns |-> "global", basket |-> 2, close |-> 100, signal |-> 0,
     confidence |-> 0, regime |-> 0, signal_strength |-> 0] }

Tm(s) == IF s.timetag = None THEN 1 ELSE s.timetag
Stamp(bar, tm) ==
  [ns |-> bar.ns, basket |-> bar.basket, tm |-> tm, close |-> bar.close,
   signal |-> bar.signal, confidence |-> bar.confidence, regime |-> bar.regime,
   signal_strength |-> bar.signal_strength]

SignalBars(s) == { Stamp(bar, Tm(s)) : bar \in Tier1Menu }
MarketBars(s) == { Stamp(bar, Tm(s)) : bar \in QuoteMenu }

\* the record that opens the next cycle (its payload is never read)
BoundaryBar(s) ==
  [ns |-> "global", basket |-> 0, tm |-> s.timetag + 1, close |-> 0,
   signal |-> 0, confidence |-> 0, regime |-> 0, signal_strength |-> 0]

\* the values the base class may give the baskets at a cycle boundary
MarkToMarket(s) ==
  { v \in [B -> PvSet \cup {BigPv}] :
      \A b \in B : /\ s.strategies[b].signal = 0 => v[b] = s.strategies[b].pv
                   /\ b = 0 => v[b] \in PvSet
                   /\ b # 0 => v[b] \in {30, BigPv} }

\* ========================================================= IronOreIndicator
\* Prices and every value derived from them are kept in thousandths
\* (IScale), each assignment rounded down to that grid; the volume is in
\* lots; the simulated money is in hundredths of a CNY.
IScale == 1000

\* alpha * x + (1 - alpha) * prev for alpha = 2 / (period + 1)
Ema(period, x, prev) == (2 * x + (period - 1) * prev) \div (period + 1)

\* math.sqrt of a non-negative value given in thousandths
RECURSIVE SqrtBetween(_, _, _)
SqrtBetween(x, lo, hi) ==
  IF lo >= hi THEN lo
  ELSE IF ((lo + hi + 1) \div 2) * ((lo + hi + 1) \div 2) <= x
       THEN SqrtBetween(x, (lo + hi + 1) \div 2, hi)
       ELSE SqrtBetween(x, lo, ((lo + hi + 1) \div 2) - 1)

\* above 2000 the root is kept to hundredths
Sqrt(v) ==
  IF v < 2000 * IScale THEN SqrtBetween(v * IScale, 0, 46340)
  ELSE SqrtBetween(v * 10, 0, 46340) * 10

\* a * b / c rounded down, computed without leaving 32 bits
MulDiv(a, b, c) == (a \div c) * b + ((a % c) * b) \div c

IndicatorLog ==
  [ cycle  |-> FALSE,       \* _on_cycle_pass ran
    seeded |-> FALSE,       \* _initialize_state ran
    raised |-> "" ]         \* the error the cycle raised, if any

IronOreIndicatorInit ==
  [ bar_index |-> 0, timetag |-> None, initialized |-> FALSE,
    sq |-> [open |-> 0, high |-> 0, low |-> 0, close |-> 0, volume |-> 0],
    open |-> 0, high |-> 0, low |-> 0, close |-> 0, volume |-> 0,
    ema_12 |-> 0, ema_26 |-> 0, ema_50 |-> 0,
    macd |-> 0, macd_signal |-> 0, macd_histogram |-> 0,
    rsi |-> 50 * IScale, gain_ema |-> 0, loss_ema |-> 0, prev_close |-> 0,
    bb_n |-> 0, bb_mean |-> 0, bb_m2 |-> 0, bb_variance |-> 0,
    bb_std_dev |-> 0, bb_upper |-> 0, bb_middle |-> 0, bb_lower |-> 0,
    bb_width |-> 0, bb_width_pct |-> 0,
    atr |-> 0, mean_atr |-> 0, atr_count |-> 0, prev_close_atr |-> 0,
    volume_ema |-> 0,
    regime |-> 3, regime_prev |-> 3,
    signal |-> 0, confidence |-> 0, position_state |-> 0,
    last_exit_bar |-> -999, cooldown_bars |-> 1,
    signal_strength |-> 0, desired_contracts |-> 0, contracts_to_add |-> 0,
    cash |-> 100000000, contracts_held |-> 0, entry_price |-> 0,
    portfolio_value |-> 100000000,
    results |-> << >>,      \* what the last on_bar call returned
    log |-> IndicatorLog ]

_initialize_state(i) ==
  [i EXCEPT
     !.ema_12 = i.close, !.ema_26 = i.close, !.ema_50 = i.close,
     !.macd = 0, !.macd_signal = 0, !.macd_histogram = 0,
     !.rsi = 50 * IScale, !.gain_ema = 0, !.loss_ema = 0,
     !.prev_close = i.close,
     !.bb_n = 1, !.bb_mean = i.close, !.bb_m2 = 0, !.bb_variance = 0,
     !.bb_std_dev = 0, !.bb_upper = i.close, !.bb_middle = i.close,
     !.bb_lower = i.close, !.bb_width = 0, !.bb_width_pct = 0,
     !.atr = IF i.high > i.low THEN i.high - i.low ELSE IScale,
     !.mean_atr = IF i.high > i.low THEN i.high - i.low ELSE IScale,
     !.atr_count = 1, !.prev_close_atr = i.close,
     !.volume_ema = i.volume,
     !.signal = 0, !.confidence = 0, !.regime = 3,
     !.initialized = TRUE,
     !.log.seeded = TRUE]

_update_emas(i, close) ==
  [i EXCEPT !.ema_12 = Ema(12, close, i.ema_12),
            !.ema_26 = Ema(26, close, i.ema_26),
            !.ema_50 = Ema(50, close, i.ema_50)]

_update_macd(i) ==
  [i EXCEPT !.macd = i.ema_12 - i.ema_26,
            !.macd_signal = Ema(9, i.ema_12 - i.ema_26, i.macd_signal),
            !.macd_histogram =
               (i.ema_12 - i.ema_26) - Ema(9, i.ema_12 - i.ema_26, i.macd_signal)]

\* rsi = 100 - 100 / (1 + rs), rs = gain_ema / loss_ema
rsi_value(gain_ema, loss_ema) ==
  IF loss_ema > 0
  THEN 100 * IScale
         - (100 * IScale * IScale) \div (IScale + (gain_ema * IScale) \div loss_ema)
  ELSE 100 * IScale

_update_rsi(i, close) ==
  [i EXCEPT !.gain_ema = Ema(14, Max(close - i.prev_close, 0), i.gain_ema),
            !.loss_ema = Ema(14, Max(i.prev_close - close, 0), i.loss_ema),
            !.rsi = rsi_value(Ema(14, Max(close - i.prev_close, 0), i.gain_ema),
                              Ema(14, Max(i.prev_close - close, 0), i.loss_ema)),
            !.prev_close = close]

\* the bands from the mean and the standard deviation; the width percentage
\* is kept to hundredths of a percent
bands_set(i, n, mean, m2, variance, std_dev) ==
  [i EXCEPT
     !.bb_mean = mean, !.bb_m2 = m2,
     !.bb_variance = variance, !.bb_std_dev = std_dev,
     !.bb_middle = mean,
     !.bb_upper = mean + 2 * std_dev,
     !.bb_lower = mean - 2 * std_dev,
     !.bb_width = 4 * std_dev,
     !.bb_width_pct = IF mean > 0 THEN MulDiv(4 * std_dev, 10000, mean) * 10 ELSE 0]

\* math.sqrt raises ValueError for a negative variance
bands_variance(i, n, mean, m2) ==
  IF n > 1 /\ m2 \div (n - 1) < 0
  THEN [i EXCEPT !.bb_mean = mean, !.bb_m2 = m2,
                 !.bb_variance = m2 \div (n - 1),
                 !.log.raised = "ValueError"]
  ELSE bands_set(i, n, mean, m2,
                 IF n > 1 THEN m2 \div (n - 1) ELSE 0,
                 IF n > 1 THEN Sqrt(m2 \div (n - 1)) ELSE 0)

\* the second deviation taken with the opposite sign
welford_reversed(i, close, n, delta, mean) ==
  bands_variance(i, n, mean, i.bb_m2 + MulDiv(delta, mean - close, IScale))

\* Welford's step: delta against the old mean, delta2 against the new one
welford(i, close, n, delta, mean) ==
  bands_variance(i, n, mean, i.bb_m2 + MulDiv(delta, close - mean, IScale))

\* a windowed accumulator: at the cap one twentieth of bb_m2 is dropped
\* before the new deviation is added
_update_bollinger_bands_windowed(i, close) ==
  welford([i EXCEPT !.bb_n = @ + 1,
                    !.bb_m2 = IF i.bb_n >= 20 THEN @ - @ \div 20 ELSE @],
          close, Min(i.bb_n + 1, 20),
          close - i.bb_mean,
          i.bb_mean + (close - i.bb_mean) \div Min(i.bb_n + 1, 20))

_update_bollinger_bands(i, close) ==
  welford([i EXCEPT !.bb_n = @ + 1], close, Min(i.bb_n + 1, 20),
          close - i.bb_mean,
          i.bb_mean + (close - i.bb_mean) \div Min(i.bb_n + 1, 20))

true_range(high, low, prev_close_atr) ==
  Max(high - low,
      Max(IF prev_close_atr > 0 THEN Abs(high - prev_close_atr) ELSE 0,
          IF prev_close_atr > 0 THEN Abs(low - prev_close_atr) ELSE 0))

_update_atr(i, high, low, close) ==
  [i EXCEPT !.atr = Ema(14, true_range(high, low, i.prev_close_atr), i.atr),
            !.atr_count = @ + 1,
            !.mean_atr =
               @ + (Ema(14, true_range(high, low, i.prev_close_atr), i.atr) - @)
                     \div Min(i.atr_count + 1, 100),
            !.prev_close_atr = close]

_update_volume_ema(i, volume) ==
  [i EXCEPT !.volume_ema = Ema(20, volume, i.volume_ema)]

_is_strong_uptrend(i) ==
  IF i.mean_atr = 0 THEN FALSE
  ELSE /\ i.ema_12 > i.ema_26 /\ i.ema_26 > i.ema_50
       /\ i.macd > i.macd_signal /\ i.macd_histogram > 0
       /\ i.close > i.ema_26
       /\ 10 * i.atr <= 12 * i.mean_atr

_is_strong_downtrend(i) ==
  IF i.mean_atr = 0 THEN FALSE
  ELSE /\ i.ema_12 < i.ema_26 /\ i.ema_26 < i.ema_50
       /\ i.macd < i.macd_signal /\ i.macd_histogram < 0
       /\ i.close < i.ema_26
       /\ 10 * i.atr <= 12 * i.mean_atr

_is_high_volatility_chaos(i) ==
  IF i.mean_atr = 0 THEN FALSE
  ELSE \/ 10 * i.atr > 15 * i.mean_atr
       \/ i.bb_width_pct > 5 * IScale

\* the trend checks made before the chaos check
_detect_regime_trend_first(i) ==
  [i EXCEPT !.regime = IF _is_strong_uptrend(i) THEN 1
                       ELSE IF _is_strong_downtrend(i) THEN 2
                       ELSE IF _is_high_volatility_chaos(i) THEN 4
                       ELSE 3]

_detect_regime(i) ==
  [i EXCEPT !.regime = IF _is_high_volatility_chaos(i) THEN 4
                       ELSE IF _is_strong_uptrend(i) THEN 1
                       ELSE IF _is_strong_downtrend(i) THEN 2
                       ELSE 3]

B2N(p) == IF p THEN 1 ELSE 0

\* contracts * price in money units (hundredths of a CNY)
Money(contracts, price) == (contracts * price) \div 10

\* (close - low) / (high - low) compared with tenths / 10
BarPositionBelow(i, tenths) ==
  i.high > i.low /\ 10 * (i.close - i.low) < tenths * (i.high - i.low)
BarPositionAbove(i, tenths) ==
  i.high > i.low /\ 10 * (i.close - i.low) > tenths * (i.high - i.low)

\* close <= bb_lower + bb_range * tenths / 10
NearLowerBand(i, tenths) ==
  /\ i.bb_upper - i.bb_lower > 0
  /\ 10 * i.close <= 10 * i.bb_lower + tenths * (i.bb_upper - i.bb_lower)

VolumeConfirmed(i) == 10 * i.volume > 11 * i.volume_ema

_calculate_uptrend_buy_score(i) ==
  B2N(i.ema_12 > i.ema_26) + B2N(i.macd > i.macd_signal)
    + B2N(i.rsi < 50 * IScale) + B2N(VolumeConfirmed(i))
    + B2N(NearLowerBand(i, 3))

_check_uptrend_exit_strict(i) ==
  B2N(i.rsi > 65 * IScale)
    + B2N(i.macd < i.macd_signal /\ 2 * i.macd_histogram < -IScale)
    + B2N(i.close < i.ema_12 /\ i.close < i.ema_26)
    + B2N(BarPositionBelow(i, 3)) >= 3

_check_downtrend_exit_strict(i) ==
  B2N(i.ema_12 < i.ema_26) + B2N(i.macd < i.macd_signal)
    + B2N(i.close < i.bb_lower) >= 2

_calculate_downtrend_reversal_score(i) ==
  B2N(i.ema_12 > i.ema_26) + B2N(i.macd > i.macd_signal)
    + B2N(i.rsi < 45 * IScale) + B2N(NearLowerBand(i, 3))
    + B2N(VolumeConfirmed(i)) + B2N(BarPositionAbove(i, 5))

_calculate_chaos_recovery_score(i) ==
  B2N(10 * i.atr < 13 * i.mean_atr) + B2N(i.ema_12 > i.ema_26)
    + B2N(25 * IScale < i.rsi /\ i.rsi < 50 * IScale)
    + B2N(i.macd > i.macd_signal) + B2N(BarPositionAbove(i, 6))

_check_chaos_force_exit(i) ==
  B2N(i.atr > 2 * i.mean_atr) + B2N(i.bb_width_pct > 6 * IScale)
    + B2N(i.close < i.bb_lower) + B2N(i.macd_histogram < -IScale) >= 3

_calculate_ranging_buy_score(i) ==
  B2N(NearLowerBand(i, 4)) + B2N(i.rsi < 50 * IScale)
    + B2N(VolumeConfirmed(i)) + B2N(i.close > i.low)

_check_ranging_exit_strict(i) ==
  B2N(/\ i.bb_upper - i.bb_lower > 0
      /\ 10 * i.close >= 10 * i.bb_upper - 2 * (i.bb_upper - i.bb_lower))
    + B2N(i.rsi > 65 * IScale)
    + B2N(i.macd < i.macd_signal /\ 10 * i.macd_histogram < -3 * IScale)
    + B2N(BarPositionBelow(i, 4)) >= 3

\* the four factors of the signal strength (RSI, MACD, trend, Bollinger),
\* each in thousandths
strength_sum(i) ==
  (IF i.rsi < 50 * IScale THEN (50 * IScale - i.rsi) \div 50 ELSE 0)
    + (IF i.macd > i.macd_signal
       THEN Min(Abs(i.macd_histogram) \div 10, IScale) ELSE 0)
    + (IF i.ema_12 > i.ema_26
       THEN Min((Abs((i.ema_12 * 10000) \div i.ema_26 - 10000) * 10) \div 2,
                IScale)
       ELSE 0)
    + (IF i.bb_upper - i.bb_lower > 0
       THEN Min((Abs(i.bb_middle - i.close) * IScale)
                  \div (i.bb_upper - i.bb_lower), IScale)
       ELSE 0)

strength_count(i) ==
  B2N(i.rsi < 50 * IScale) + B2N(i.macd > i.macd_signal)
    + B2N(i.ema_12 > i.ema_26) + B2N(i.bb_upper - i.bb_lower > 0)

\* ema_12 / ema_26 raises ZeroDivisionError when the medium EMA is zero
_calculate_signal_strength(i) ==
  IF i.ema_12 > i.ema_26 /\ i.ema_26 = 0
  THEN [i EXCEPT !.log.raised = "ZeroDivisionError"]
  ELSE [i EXCEPT !.signal_strength =
          IF strength_count(i) > 0 THEN strength_sum(i) \div strength_count(i)
          ELSE 0]

can_add_position(i) ==
  /\ i.portfolio_value > 0 =>
       10 * Money(i.contracts_held + i.contracts_to_add, i.close)
         <= 7 * i.portfolio_value
  /\ i.cash >= Money(i.contracts_to_add, i.close)

in_cooldown(i) ==
  i.bar_index - i.last_exit_bar < i.cooldown_bars /\ i.position_state = 0

should_exit(i) ==
  \/ i.regime = 1 /\ _check_uptrend_exit_strict(i)
  \/ i.regime = 2 /\ _check_downtrend_exit_strict(i)
  \/ i.regime = 3 /\ _check_ranging_exit_strict(i)

buy_score(i) ==
  IF i.regime = 1 THEN _calculate_uptrend_buy_score(i)
  ELSE IF i.regime = 3 THEN _calculate_ranging_buy_score(i)
  ELSE IF i.regime = 2 THEN _calculate_downtrend_reversal_score(i)
  ELSE IF i.regime = 4 THEN _calculate_chaos_recovery_score(i)
  ELSE 0

buy_confidence(i) ==
  IF i.regime = 1
  THEN Max(0, Min(IScale, ((45 * IScale - i.rsi) * IScale) \div (45 * IScale)))
  ELSE IF i.regime = 3
  THEN (IF i.bb_upper - i.bb_lower > 0
        THEN Max(0, Min((Abs(i.bb_middle - i.close) * IScale)
                          \div (i.bb_upper - i.bb_lower), IScale))
        ELSE 500)
  ELSE IF i.regime = 2 THEN 600
  ELSE 500

signal_exit(i, confidence) ==
  [i EXCEPT !.signal = -1, !.confidence = confidence,
            !.signal_strength = 0, !.last_exit_bar = i.bar_index]

\* _generate_signal from the chaos check on
signal_decide(i) ==
  IF i.regime = 4 /\ i.position_state = 1 /\ _check_chaos_force_exit(i)
  THEN signal_exit(i, 1000)
  ELSE IF i.position_state = 1 /\ should_exit(i)
  THEN signal_exit(i, 800)
  ELSE IF /\ ~in_cooldown(i)
          /\ can_add_position(i)
          /\ buy_score(i) >= (IF i.position_state = 1 THEN 2 ELSE 3)
  THEN [i EXCEPT !.signal = 1, !.confidence = buy_confidence(i)]
  ELSE [i EXCEPT !.signal = 0, !.confidence = 0]

signal_desired(i) ==
  signal_decide(
    [i EXCEPT !.desired_contracts =
       IF can_add_position(i)
       THEN (IF i.position_state = 1 THEN i.contracts_held + i.contracts_to_add
             ELSE i.contracts_to_add)
       ELSE i.contracts_held])

\* _generate_signal after the signal strength
signal_sized(i) ==
  IF i.log.raised # "" THEN i
  ELSE signal_desired(
         [i EXCEPT !.contracts_to_add = IF i.rsi < 35 * IScale THEN 100 ELSE 50])

_generate_signal(i) ==
  signal_sized(_calculate_signal_strength(
    [i EXCEPT !.position_state = IF i.contracts_held > 0 THEN 1 ELSE 0,
              !.portfolio_value = i.cash + Money(i.contracts_held, i.close)]))

portfolio_value_set(i) ==
  [i EXCEPT !.portfolio_value =
     i.cash + (IF i.contracts_held > 0 THEN Money(i.contracts_held, i.close) ELSE 0)]

\* a purchase of the fixed lot contracts_per_trade (50) whatever was signalled
_update_portfolio_fixed_lot(i) ==
  portfolio_value_set(
    IF i.signal = 1
    THEN (IF i.cash >= Money(50, i.close)
          THEN [i EXCEPT
                  !.entry_price =
                     (i.contracts_held * i.entry_price + 50 * i.close)
                       \div (i.contracts_held + 50),
                  !.contracts_held = @ + 50,
                  !.cash = @ - Money(50, i.close)]
          ELSE i)
    ELSE IF i.signal = -1 /\ i.contracts_held > 0
    THEN [i EXCEPT !.cash = @ + Money(i.contracts_held, i.close),
                   !.contracts_held = 0, !.entry_price = 0]
    ELSE i)

_update_portfolio(i) ==
  portfolio_value_set(
    IF i.signal = 1
    THEN (IF i.cash >= Money(i.contracts_to_add, i.close)
          THEN [i EXCEPT
                  !.entry_price =
                     IF i.contracts_held + i.contracts_to_add > 0
                     THEN (i.contracts_held * i.entry_price
                             + i.contracts_to_add * i.close)
                            \div (i.contracts_held + i.contracts_to_add)
                     ELSE @,
                  !.contracts_held = @ + i.contracts_to_add,
                  !.cash = @ - Money(i.contracts_to_add, i.close)]
          ELSE i)
    ELSE IF i.signal = -1 /\ i.contracts_held > 0
    THEN [i EXCEPT !.cash = @ + Money(i.contracts_held, i.close),
                   !.contracts_held = 0, !.entry_price = 0]
    ELSE i)

\* _on_cycle_pass from the regime on; nothing more runs once an error was
\* raised
cycle_signal(i) ==
  IF i.log.raised # "" THEN i ELSE _update_portfolio(i)

cycle_regime(i) ==
  IF i.log.raised # "" THEN i
  ELSE cycle_signal(_generate_signal(_detect_regime(
         _update_volume_ema(_update_atr(i, i.high, i.low, i.close), i.volume))))

indicator_on_cycle_pass(i) ==
  IF ~i.initialized THEN _initialize_state(i)
  ELSE cycle_regime(_update_bollinger_bands(
         _update_rsi(_update_macd(_update_emas(i, i.close)), i.close), i.close))

\* ready as soon as the state is initialised
indicator_ready_when_initialized(i) == i.initialized

indicator_ready_to_serialize(i) == i.bar_index > 0 /\ i.initialized

\* the exported record
indicator_copy_to_sv(i) ==
  [ bar_index |-> i.bar_index, close |-> i.close,
    ema_12 |-> i.ema_12, ema_26 |-> i.ema_26, ema_50 |-> i.ema_50,
    rsi |-> i.rsi, regime |-> i.regime, signal |-> i.signal,
    confidence |-> i.confidence, signal_strength |-> i.signal_strength,
    contracts_held |-> i.contracts_held,
    portfolio_value |-> i.portfolio_value ]

\* on_bar at a cycle boundary, after the cycle was processed
indicator_emit(i, bar) ==
  IF i.log.raised # "" THEN i
  ELSE [i EXCEPT !.results = IF indicator_ready_to_serialize(i)
                             THEN <<indicator_copy_to_sv(i)>> ELSE << >>,
                 !.timetag = bar.tm,
                 !.bar_index = @ + 1]

\* on_bar for a quote of the logical contract, parsed into sq
indicator_quote(i, bar) ==
  IF i.timetag < bar.tm
  THEN indicator_emit(
         indicator_on_cycle_pass(
           [i EXCEPT !.open = i.sq.open, !.high = i.sq.high, !.low = i.sq.low,
                     !.close = i.sq.close, !.volume = i.sq.volume,
                     !.log.cycle = TRUE]),
         bar)
  ELSE i

indicator_on_bar(i, bar) ==
  IF bar.market # "DCE" \/ bar.ns # "global" \/ ~bar.logical
  THEN [i EXCEPT !.results = << >>, !.log = IndicatorLog]
  ELSE indicator_quote(
         [i EXCEPT !.results = << >>, !.log = IndicatorLog,
                   !.sq = [open |-> bar.open, high |-> bar.high, low |-> bar.low,
                           close |-> bar.close, volume |-> bar.volume],
                   !.timetag = IF i.timetag = None THEN bar.tm ELSE @],
         bar)

\* ============================================ TrinityCaptain (WOS_Captain.py)
\* The regime-adaptive fund manager. The first CaptainBasketCount of its 12
\* baskets are modelled (DCE i and DCE j). Money is in units of
\* INITIAL_CASH / 1200, so that one basket's share is 100; ADX values and
\* thresholds are in hundredths, conviction values in ten-thousandths,
\* leverage in ten-thousandths (rounded down when halved). A time tag
\* YYYYMMDDHHMMSS is kept as its date part and its time part. The returned
\* output records and the baskets' own prices are left out.
CaptainBasketCount == 2
CB == 0 .. (CaptainBasketCount - 1)

CAPTAIN_BASKET_COUNT == 12
INITIAL_CASH == 1200
PORTFOLIO_DD_REDUCE == 10     \* hundredths
PORTFOLIO_DD_FLATTEN == 20    \* hundredths
BASKET_DD_CLOSE == 15         \* hundredths

TRINITY_PLAYBOOK ==
  (0 :> [river |-> 3993, lake |-> 2636, bull |-> 5811, bear |-> -6582,
         size |-> 10000])
  @@ (1 :> [river |-> 3918, lake |-> 2582, bull |-> 16416, bear |-> -16680,
            size |-> 3900])

NoTag == [date |-> 0, time |-> 0]      \* timetag before the first record
TagLT(a, b) == a.date < b.date \/ (a.date = b.date /\ a.time < b.time)

\* what the last on_bar call did
CaptainLog ==
  [ cycle     |-> FALSE,               \* _on_cycle_pass ran
    closing   |-> FALSE,               \* its time tag is near a session close
    regime    |-> [b \in CB |-> ""],   \* the regime found for the basket
    opened    |-> {},                  \* baskets given a direction
    flattened |-> FALSE ]              \* the portfolio limit flattened all

\* entry_regime records the regime under which the open position of a basket
\* was taken ("" when flat); the program keeps no such field
TrinityCaptainInit ==
  [ timetag |-> NoTag, bar_index |-> 0,
    strategies |-> [b \in CB |->
                      [signal |-> 0, leverage |-> 10000,
                       nv |-> INITIAL_CASH \div CAPTAIN_BASKET_COUNT]],
    nv |-> INITIAL_CASH,
    current_prices |-> << >>, current_scouts |-> << >>,
    active_positions |-> 0, river_trades |-> 0, lake_trades |-> 0,
    dead_zone_count |-> 0,
    peak_nv |-> INITIAL_CASH, drawdown |-> Zero,
    portfolio_dd_events |-> 0, basket_dd_events |-> 0,
    basket_peaks |-> [b \in CB |-> INITIAL_CASH \div CAPTAIN_BASKET_COUNT],
    entry_regime |-> [b \in CB |-> ""],
    log |-> CaptainLog ]

\* timetag: the digits 8..11 of the 14-digit string are HHMM
_is_market_closing_soon(timetag) ==
  IF timetag.date < 10000000 THEN FALSE
  ELSE \/ 1450 <= timetag.time \div 100 /\ timetag.time \div 100 < 1500
       \/ 2350 <= timetag.time \div 100 /\ timetag.time \div 100 <= 2359
       \/ 50 <= timetag.time \div 100 /\ timetag.time \div 100 <= 100

captain_regime(scout, rules) ==
  IF scout.adx_value > rules.river THEN "RIVER"
  ELSE IF scout.adx_value < rules.lake THEN "LAKE"
  ELSE "DEAD"

\* the signal of _process_basket_signal; closing is _is_market_closing_soon
captain_signal(scout, price, rules, closing) ==
  IF scout.adx_value > rules.river
  THEN (IF scout.di_plus > scout.di_minus
           /\ scout.conviction_oscillator > rules.bull THEN 1
        ELSE IF scout.di_minus > scout.di_plus
                /\ scout.conviction_oscillator < rules.bear THEN -1
        ELSE 0)
  ELSE IF scout.adx_value < rules.lake
  THEN (IF closing THEN 0
        ELSE IF price <= scout.lower_band
                /\ scout.conviction_oscillator > rules.bull THEN 1
        ELSE IF price >= scout.upper_band
                /\ scout.conviction_oscillator < rules.bear THEN -1
        ELSE 0)
  ELSE 0

_execute_basket_signal(c, basket_idx, signal, rules, regime) ==
  IF signal = 0
  THEN [c EXCEPT !.strategies[basket_idx].signal = 0,
                 !.entry_regime[basket_idx] = ""]
  ELSE [c EXCEPT !.strategies[basket_idx].leverage = rules.size,
                 !.strategies[basket_idx].signal = signal,
                 !.entry_regime[basket_idx] = regime,
                 !.log.opened = @ \cup {basket_idx}]

_check_basket_dd(c, basket_idx, peak) ==
  IF /\ peak > 0
     /\ (peak - c.strategies[basket_idx].nv) * 100 > BASKET_DD_CLOSE * peak
     /\ c.strategies[basket_idx].signal # 0
  THEN [c EXCEPT !.basket_peaks[basket_idx] = peak,
                 !.strategies[basket_idx].signal = 0,
                 !.entry_regime[basket_idx] = "",
                 !.basket_dd_events = @ + 1]
  ELSE [c EXCEPT !.basket_peaks[basket_idx] = peak]

\* _process_basket_signal once the regime and the signal are known
basket_signal_apply(c, basket_idx, signal, rules, regime) ==
  _check_basket_dd(
    IF signal # c.strategies[basket_idx].signal
    THEN _execute_basket_signal(c, basket_idx, signal, rules, regime)
    ELSE c,
    basket_idx,
    Max(c.basket_peaks[basket_idx], c.strategies[basket_idx].nv))

basket_signal_count(c, basket_idx, signal, rules, regime) ==
  basket_signal_apply(
    [c EXCEPT !.log.regime[basket_idx] = regime,
              !.river_trades = @ + B2N(regime = "RIVER" /\ signal # 0),
              !.lake_trades = @ + B2N(regime = "LAKE" /\ signal # 0),
              !.dead_zone_count = @ + B2N(regime = "DEAD")],
    basket_idx, signal, rules, regime)

_process_basket_signal(c, basket_idx, time_tag) ==
  IF \/ basket_idx \notin DOMAIN c.current_prices
     \/ basket_idx \notin DOMAIN c.current_scouts
  THEN c
  ELSE basket_signal_count(c, basket_idx,
         captain_signal(c.current_scouts[basket_idx], c.current_prices[basket_idx],
                        TRINITY_PLAYBOOK[basket_idx],
                        _is_market_closing_soon(time_tag)),
         TRINITY_PLAYBOOK[basket_idx],
         captain_regime(c.current_scouts[basket_idx], TRINITY_PLAYBOOK[basket_idx]))

RECURSIVE CaptainProcessFrom(_, _, _)
CaptainProcessFrom(c, basket_idx, time_tag) ==
  IF basket_idx >= CaptainBasketCount THEN c
  ELSE CaptainProcessFrom(_process_basket_signal(c, basket_idx, time_tag),
                          basket_idx + 1, time_tag)

_apply_portfolio_dd_limits(c) ==
  IF RatioGT(c.drawdown, PORTFOLIO_DD_FLATTEN, 100)
  THEN [c EXCEPT !.strategies = [b \in CB |-> [c.strategies[b] EXCEPT !.signal = 0]],
                 !.entry_regime = [b \in CB |-> ""],
                 !.portfolio_dd_events = @ + 1,
                 !.log.flattened = TRUE]
  ELSE IF RatioGT(c.drawdown, PORTFOLIO_DD_REDUCE, 100)
  THEN [c EXCEPT !.strategies =
                    [b \in CB |-> IF c.strategies[b].signal # 0
                                  THEN [c.strategies[b] EXCEPT !.leverage = @ \div 2]
                                  ELSE c.strategies[b]],
                 !.portfolio_dd_events = @ + 1]
  ELSE c

\* _on_cycle_pass after the baskets were processed
captain_cycle_limits(c, peak_nv) ==
  _apply_portfolio_dd_limits(
    [c EXCEPT !.active_positions =
                 Cardinality({b \in CB : c.strategies[b].signal # 0}),
              !.peak_nv = peak_nv,
              !.drawdown = IF peak_nv > 0 THEN Ratio(peak_nv - c.nv, peak_nv)
                           ELSE Zero])

\* marks: the values the base class's cycle processing gives the portfolio
\* and the baskets
captain_on_cycle_pass(c, time_tag, marks) ==
  captain_cycle_limits(
    CaptainProcessFrom(
      [c EXCEPT !.nv = marks.nv,
                !.strategies = [b \in CB |-> [c.strategies[b] EXCEPT
                                                !.nv = marks.basket_nv[b]]],
                !.log.cycle = TRUE,
                !.log.closing = _is_market_closing_soon(time_tag)],
      0, time_tag),
    Max(c.peak_nv, marks.nv))

\* on_bar for a record of the current cycle
captain_parse(c, bar) ==
  IF bar.ns = "global"
  THEN [c EXCEPT !.current_prices = (bar.basket :> bar.close) @@ @]
  ELSE [c EXCEPT !.current_scouts = (bar.basket :> bar.scout) @@ @]

captain_on_bar_timed(c, bar, marks) ==
  IF TagLT(c.timetag, bar.tm)
  THEN [captain_on_cycle_pass(c, bar.tm, marks) EXCEPT
          !.timetag = bar.tm, !.bar_index = @ + 1]
  ELSE captain_parse(c, bar)

captain_on_bar(c, bar, marks) ==
  captain_on_bar_timed(
    [c EXCEPT !.timetag = IF c.timetag = NoTag THEN bar.tm ELSE @,
              !.log = CaptainLog],
    bar, marks)

\* =================================================================== state
VARIABLES strategy, resumed, stopped, levq, call, feed, indicator, captain

vars == <<strategy, resumed, stopped, levq, call, feed, indicator, captain>>

\* call: the method last called directly on one of the managers, with its
\* arguments and result; feed: the records delivered since the last cycle
\* boundary (neither is read by any code path)
NoCall == [op |-> ""]
NoFeed == [arrived |-> {}, bar |-> [ns |-> ""]]

\* a direct call of calculate_leverage: its arguments and, once it has
\* returned, its result (0 before)
LevQuery(conviction, tier, chaos_baskets, portfolio_dd, daily_loss) ==
  [ conviction |-> conviction, tier |-> tier, chaos_baskets |-> chaos_baskets,
    portfolio_dd |-> portfolio_dd, daily_loss |-> daily_loss, leverage |-> 0 ]

Init ==
  /\ strategy = CompositeStrategyInit(INITIAL_CAPITAL)
  /\ resumed = CompositeStrategyInit(INITIAL_CAPITAL)
  /\ stopped = FALSE
  /\ levq = LevQuery(0, "WEAK", 0, Zero, Zero)
  /\ call = NoCall
  /\ feed = NoFeed
  /\ indicator = IronOreIndicatorInit
  /\ captain = TrinityCaptainInit

\* ----------------------------------------------- the engine, one process
OnBarSignal ==
  /\ \E bar \in SignalBars(strategy) :
        strategy' = on_bar(strategy, bar, BasketPv(strategy))
  /\ UNCHANGED <<resumed, stopped, levq, call, feed, indicator, captain>>

OnBarMarket ==
  /\ \E bar \in MarketBars(strategy) :
        strategy' = on_bar(strategy, bar, BasketPv(strategy))
  /\ UNCHANGED <<resumed, stopped, levq, call, feed, indicator, captain>>

OnBarCycle ==
  /\ strategy.timetag # None
  /\ strategy.bar_index < MaxBars
  /\ \E newpv \in MarkToMarket(strategy) :
        strategy' = on_bar(strategy, BoundaryBar(strategy), newpv)
  /\ UNCHANGED <<resumed, stopped, levq, call, feed, indicator, captain>>

TradedayBegin ==
  /\ strategy' = on_tradeday_begin(strategy)
  /\ UNCHANGED <<resumed, stopped, levq, call, feed, indicator, captain>>

TradedayEnd ==
  /\ strategy' = on_tradeday_end(strategy)
  /\ UNCHANGED <<resumed, stopped, levq, call, feed, indicator, captain>>

Next == OnBarSignal \/ OnBarMarket \/ OnBarCycle \/ TradedayBegin \/ TradedayEnd

Spec == Init /\ [][Next]_vars

\* ------------------ the engine with one traded instrument, over more cycles
MaxTrailBars == 8       \* cycle boundaries explored

TrailMenu ==
  { Tier1(0, -1, 50, 30, 2, 100),
    Tier1(0,  1, 50, 30, 1, 100),
    Tier1(0,  1, 90, 90, 1, 105),
    Tier1(0, -1, 90, 90, 2, 98) }

TrailPvSet == {22, 26, 30}

TrailSignal ==
  /\ \E bar \in TrailMenu :
        strategy' = on_bar(strategy, Stamp(bar, Tm(strategy)), BasketPv(strategy))
  /\ UNCHANGED <<resumed, stopped, levq, call, feed, indicator, captain>>

TrailCycle ==
  /\ strategy.timetag # None
  /\ strategy.bar_index < MaxTrailBars
  /\ \E v \in TrailPvSet :
        /\ strategy.strategies[0].signal = 0 => v = strategy.strategies[0].pv
        /\ strategy' = on_bar(strategy, BoundaryBar(strategy),
                              [BasketPv(strategy) EXCEPT ![0] = v])
  /\ UNCHANGED <<resumed, stopped, levq, call, feed, indicator, captain>>

TrailTradedayBegin ==
  /\ strategy' = on_tradeday_begin(strategy)
  /\ UNCHANGED <<resumed, stopped, levq, call, feed, indicator, captain>>

NextTrail == TrailSignal \/ TrailCycle \/ TrailTradedayBegin

SpecTrail == Init /\ [][NextTrail]_vars

\* ------------- two runs over the same records, one stopped and resumed once
MaxReplayBars == 3      \* cycle boundaries explored

ReplaySignal ==
  /\ \E bar \in TrailMenu :
        /\ strategy' = on_bar(strategy, Stamp(bar, Tm(strategy)), BasketPv(strategy))
        /\ resumed' = on_bar(resumed, Stamp(bar, Tm(strategy)), BasketPv(resumed))
  /\ UNCHANGED <<stopped, levq, call, feed, indicator, captain>>

ReplayCycle ==
  /\ strategy.timetag # None
  /\ strategy.bar_index < MaxReplayBars
  /\ \E v \in TrailPvSet :
        /\ strategy.strategies[0].signal = 0 => v = strategy.strategies[0].pv
        /\ strategy' = on_bar(strategy, BoundaryBar(strategy),
                              [BasketPv(strategy) EXCEPT ![0] = v])
        /\ resumed' = on_bar(resumed, BoundaryBar(strategy),
                             [BasketPv(resumed) EXCEPT ![0] = v])
  /\ UNCHANGED <<stopped, levq, call, feed, indicator, captain>>

ReplayTradedayBegin ==
  /\ strategy' = on_tradeday_begin(strategy)
  /\ resumed' = on_tradeday_begin(resumed)
  /\ UNCHANGED <<stopped, levq, call, feed, indicator, captain>>

\* the second run is stopped between two records and resumed
StopResume ==
  /\ ~stopped
  /\ stopped' = TRUE
  /\ resumed' = Restore(resumed)
  /\ UNCHANGED <<strategy, levq, call, feed, indicator, captain>>

NextReplay == ReplaySignal \/ ReplayCycle \/ ReplayTradedayBegin \/ StopResume

SpecReplay == Init /\ [][NextReplay]_vars

\* ------------------------------------ calculate_leverage, called directly
Convictions == {0, 150, 200, 349, 350, 420, 549, 550, 600, 777, 1000}
TierLabels == {"STRONG", "MEDIUM", "WEAK", "OTHER"}
ChaosCounts == 0 .. 3
Drawdowns == { [n |-> k, d |-> 100] : k \in {0, 3, 4, 5, 6, 12} }
DailyLosses == { [n |-> k, d |-> 100] : k \in {-2, 0, 1, 2, 3} }

InitLev ==
  /\ strategy = CompositeStrategyInit(INITIAL_CAPITAL)
  /\ resumed = CompositeStrategyInit(INITIAL_CAPITAL)
  /\ stopped = FALSE
  /\ \E conviction \in Convictions, tier \in TierLabels,
        chaos_baskets \in ChaosCounts,
        portfolio_dd \in Drawdowns, daily_loss \in DailyLosses :
        levq = LevQuery(conviction, tier, chaos_baskets, portfolio_dd, daily_loss)
  /\ call = NoCall
  /\ feed = NoFeed
  /\ indicator = IronOreIndicatorInit
  /\ captain = TrinityCaptainInit

CalculateLeverage ==
  /\ levq.leverage = 0
  /\ levq' = [levq EXCEPT !.leverage =
                calculate_leverage(levq.conviction, levq.tier, levq.chaos_baskets,
                                   levq.portfolio_dd, levq.daily_loss)]
  /\ UNCHANGED <<strategy, resumed, stopped, call, feed, indicator, captain>>

NextLev == CalculateLeverage

SpecLev == InitLev /\ [][NextLev]_vars

\* ------------- the engine fed records that carry their own time stamps: the
\* first record of a later time stamp is the one that closes the cycle
MaxFeedBars == 3        \* cycle boundaries explored

FeedMenu ==
  { Tier1(0, -1, 50, 30, 2, 100),
    Tier1(0,  1, 90, 90, 1, 106),
    Tier1(1,  1, 90, 90, 4, 100) } \cup QuoteMenu

Arrival(bar) == IF bar.ns = "private" THEN {bar.basket} ELSE {}

\* a record of the current cycle
FeedRecord ==
  /\ \E bar \in FeedMenu :
        /\ strategy' = on_bar(strategy, Stamp(bar, Tm(strategy)), BasketPv(strategy))
        /\ feed' = [arrived |-> feed.arrived \cup Arrival(bar),
                    bar |-> Stamp(bar, Tm(strategy))]
  /\ UNCHANGED <<resumed, stopped, levq, call, indicator, captain>>

\* the first record of the next cycle
FeedBoundary ==
  /\ strategy.timetag # None
  /\ strategy.bar_index < MaxFeedBars
  /\ \E bar \in FeedMenu :
        /\ strategy' = on_bar(strategy, Stamp(bar, strategy.timetag + 1),
                              BasketPv(strategy))
        /\ feed' = [arrived |-> Arrival(bar),
                    bar |-> Stamp(bar, strategy.timetag + 1)]
  /\ UNCHANGED <<resumed, stopped, levq, call, indicator, captain>>

NextFeed == FeedRecord \/ FeedBoundary

SpecFeed == Init /\ [][NextFeed]_vars

\* ------------------------------------------ the indicator fed with quotes
MaxIndBars == 4         \* cycle boundaries explored

Quote(open, high, low, close, volume) ==
  [market |-> "DCE", ns |-> "global", logical |-> TRUE,
   open |-> open, high |-> high, low |-> low, close |-> close,
   volume |-> volume]

\* the quotes of the logical contract the environment may deliver
IndMenu ==
  { Quote(100000, 101000,  99000, 100000, 1000),
    Quote(100000, 105000,  95000, 100000, 1000),
    Quote(100000, 111000, 109000, 110000, 1000),
    Quote(100000, 100000,  98500,  99000, 2000),
    Quote(100000, 101500, 100000, 101000, 1000),
    Quote(100000, 100000,  89000,  90000, 3000),
    Quote(0, 0, 0, 0, 0) }

\* records on_bar filters out: another market, another namespace, a
\* contract that is not the logical one
IgnoredMenu ==
  { [Quote(100000, 101000, 99000, 100000, 1000) EXCEPT !.market = "SHFE"],
    [Quote(100000, 101000, 99000, 100000, 1000) EXCEPT !.ns = "private"],
    [Quote(100000, 101000, 99000, 100000, 1000) EXCEPT !.logical = FALSE] }

IndStamp(bar, tm) ==
  [market |-> bar.market, ns |-> bar.ns, logical |-> bar.logical, tm |-> tm,
   open |-> bar.open, high |-> bar.high, low |-> bar.low, close |-> bar.close,
   volume |-> bar.volume]

IndTm(i) == IF i.timetag = None THEN 1 ELSE i.timetag

\* what has been delivered for the instrument: the closes of the first and
\* of the second quote, n counting 1, 2, more
Delivered(f, bar) ==
  IF f = NoFeed THEN [n |-> 1, first |-> bar.close, second |-> 0]
  ELSE IF f.n = 1 THEN [n |-> 2, first |-> f.first, second |-> bar.close]
  ELSE [f EXCEPT !.n = 3]

\* an error raised out of on_bar ends the process
IndBar ==
  /\ indicator.log.raised = ""
  /\ \E bar \in IndMenu :
        indicator' = indicator_on_bar(indicator, IndStamp(bar, IndTm(indicator)))
  /\ UNCHANGED <<strategy, resumed, stopped, levq, call, feed, captain>>

IndBoundary ==
  /\ indicator.log.raised = ""
  /\ indicator.timetag # None
  /\ indicator.bar_index < MaxIndBars
  /\ \E bar \in IndMenu :
        indicator' = indicator_on_bar(indicator, IndStamp(bar, indicator.timetag + 1))
  /\ UNCHANGED <<strategy, resumed, stopped, levq, call, feed, captain>>

IndIgnored ==
  /\ indicator.log.raised = ""
  /\ \E bar \in IgnoredMenu :
        indicator' = indicator_on_bar(indicator, IndStamp(bar, IndTm(indicator) + 1))
  /\ UNCHANGED <<strategy, resumed, stopped, levq, call, feed, captain>>

NextInd == IndBar \/ IndBoundary \/ IndIgnored

SpecInd == Init /\ [][NextInd]_vars

\* ------------------- the indicator's first cycles, the deliveries recorded
MaxSeedBars == 2        \* cycle boundaries explored

SeedBar ==
  /\ \E bar \in IndMenu :
        /\ indicator' = indicator_on_bar(indicator, IndStamp(bar, IndTm(indicator)))
        /\ feed' = Delivered(feed, bar)
  /\ UNCHANGED <<strategy, resumed, stopped, levq, call, captain>>

SeedBoundary ==
  /\ indicator.timetag # None
  /\ indicator.bar_index < MaxSeedBars
  /\ \E bar \in IndMenu :
        /\ indicator' = indicator_on_bar(indicator, IndStamp(bar, indicator.timetag + 1))
        /\ feed' = Delivered(feed, bar)
  /\ UNCHANGED <<strategy, resumed, stopped, levq, call, captain>>

NextSeed == SeedBar \/ SeedBoundary

SpecSeed == Init /\ [][NextSeed]_vars

\* ------------- the engine with basket values and prices that reach zero
MaxCrashBars == 3       \* cycle boundaries explored

CrashMenu ==
  { Tier1(0, -1, 90, 90, 2, 100),
    Tier1(0,  1, 90, 90, 1, 100),
    Tier1(0,  1, 90, 90, 1, 0),
    Tier1(1,  1, 90, 90, 4, 100),
    Tier1(0,  1, 90, 90, 1, 97),
    Tier1(0,  1, 90, 90, 1, 98),
    Tier1(0, -1, 90, 90, 2, 103),
    Tier1(0, -1, 50, 30, 2, 100) }

\* the values the base class may give the baskets in position: a basket may
\* lose all of its value
CrashMarks(s) ==
  { v \in [B -> {0, 30, BigPv}] :
      \A b \in B : /\ s.strategies[b].signal = 0 => v[b] = s.strategies[b].pv
                   /\ b = 0 => v[b] \in {0, 30}
                   /\ b # 0 => v[b] \in {30, BigPv} }

\* an error raised out of on_bar ends the process
CrashSignal ==
  /\ strategy.log.raised = ""
  /\ \E bar \in CrashMenu :
        strategy' = on_bar(strategy, Stamp(bar, Tm(strategy)), BasketPv(strategy))
  /\ UNCHANGED <<resumed, stopped, levq, call, feed, indicator, captain>>

CrashCycle ==
  /\ strategy.log.raised = ""
  /\ strategy.timetag # None
  /\ strategy.bar_index < MaxCrashBars
  /\ \E newpv \in CrashMarks(strategy) :
        strategy' = on_bar(strategy, BoundaryBar(strategy), newpv)
  /\ UNCHANGED <<resumed, stopped, levq, call, feed, indicator, captain>>

NextCrash == CrashSignal \/ CrashCycle

SpecCrash == Init /\ [][NextCrash]_vars

\* ---------------- the engine over more than a day of cycles (96 bars)
MaxRebalBars == 100     \* cycle boundaries explored

RebalMenu == { Tier1(0, 1, 90, 90, 1, 100) }

\* the values the base class may give basket 0 while it is in position
RebalMarks == {30, 37, 40, 150}

RebalSignal ==
  /\ \E bar \in RebalMenu :
        strategy' = on_bar(strategy, Stamp(bar, Tm(strategy)), BasketPv(strategy))
  /\ UNCHANGED <<resumed, stopped, levq, call, feed, indicator, captain>>

RebalCycle ==
  /\ strategy.timetag # None
  /\ strategy.bar_index < MaxRebalBars
  /\ \E v \in RebalMarks :
        /\ strategy.strategies[0].signal = 0 => v = strategy.strategies[0].pv
        /\ strategy' = on_bar(strategy, BoundaryBar(strategy),
                              [BasketPv(strategy) EXCEPT ![0] = v])
  /\ UNCHANGED <<resumed, stopped, levq, call, feed, indicator, captain>>

NextRebal == RebalSignal \/ RebalCycle

SpecRebal == Init /\ [][NextRebal]_vars

\* _check_and_rebalance called on its own, between two records
CallRebalance ==
  /\ strategy.timetag # None
  /\ strategy' = _check_and_rebalance([strategy EXCEPT !.log = EmptyLog])
  /\ UNCHANGED <<resumed, stopped, levq, call, feed, indicator, captain>>

NextAdvisory == RebalSignal \/ RebalCycle \/ CallRebalance

SpecAdvisory == Init /\ [][NextAdvisory]_vars

\* ------------------- the engine with each trading-day hook call recorded
MaxHookBars == 2        \* cycle boundaries explored

HookOnBar ==
  /\ \E bar \in SignalBars(strategy) \cup MarketBars(strategy) :
        strategy' = on_bar(strategy, bar, BasketPv(strategy))
  /\ call' = NoCall
  /\ UNCHANGED <<resumed, stopped, levq, feed, indicator, captain>>

HookCycle ==
  /\ strategy.timetag # None
  /\ strategy.bar_index < MaxHookBars
  /\ \E newpv \in MarkToMarket(strategy) :
        strategy' = on_bar(strategy, BoundaryBar(strategy), newpv)
  /\ call' = NoCall
  /\ UNCHANGED <<resumed, stopped, levq, feed, indicator, captain>>

HookBegin ==
  /\ strategy' = on_tradeday_begin(strategy)
  /\ call' = [op |-> "on_tradeday_begin"]
  /\ UNCHANGED <<resumed, stopped, levq, feed, indicator, captain>>

HookEnd ==
  /\ strategy' = on_tradeday_end(strategy)
  /\ call' = [op |-> "on_tradeday_end"]
  /\ UNCHANGED <<resumed, stopped, levq, feed, indicator, captain>>

NextHooks == HookOnBar \/ HookCycle \/ HookBegin \/ HookEnd

SpecHooks == Init /\ [][NextHooks]_vars

\* ----------------------------- the RiskManager's tracking, called directly
RiskPvs == {0, 50, 90, 97, 100, 103, 110, 150}

CallUpdatePeak ==
  /\ \E portfolio_value \in RiskPvs :
        /\ strategy' = [strategy EXCEPT !.risk_manager =
                          update_peak_tracking(@, portfolio_value)]
        /\ call' = [op |-> "update_peak_tracking",
                    portfolio_value |-> portfolio_value]
  /\ UNCHANGED <<resumed, stopped, levq, feed, indicator, captain>>

CallUpdateDaily ==
  /\ \E portfolio_value \in RiskPvs :
        /\ strategy' = [strategy EXCEPT !.risk_manager =
                          update_daily_tracking(@, portfolio_value)]
        /\ call' = [op |-> "update_daily_tracking",
                    portfolio_value |-> portfolio_value]
  /\ UNCHANGED <<resumed, stopped, levq, feed, indicator, captain>>

\* portfolio states and proposed sizes (scaled by 10^5) handed to the gate
GateStates == [total_value : {0, 100}, total_exposure : {0, 40, 80}, cash : {10}]

GateSizes == {0, 1000000, 1000001, 6000000}

CallCanEnter ==
  /\ \E portfolio_state \in GateStates, proposed_size \in GateSizes :
        call' = [op |-> "can_enter_position",
                 proposed_size |-> proposed_size,
                 portfolio_state |-> portfolio_state,
                 result |-> can_enter_position(strategy.risk_manager,
                                               proposed_size, portfolio_state)]
  /\ UNCHANGED <<strategy, resumed, stopped, levq, feed, indicator, captain>>

NextRisk == CallUpdatePeak \/ CallUpdateDaily \/ CallCanEnter

SpecRisk == Init /\ [][NextRisk]_vars

\* ------------------- the tier selection of _execute_entry, called directly
SizingLevels == {5 * k : k \in 0 .. 20}   \* confidence and signal_strength, hundredths

\* a cached signal is offered to the entry path: _should_enter decides, and
\* when it passes, _execute_entry computes the conviction and picks the tier
CallTierSizing ==
  /\ \E signal \in {-1, 0, 1}, confidence \in SizingLevels,
        signal_strength \in SizingLevels :
        call' = [op |-> "_execute_entry",
                 enters |-> _should_enter(Tier1(0, signal, confidence,
                                                signal_strength, 1, 100)),
                 conviction |-> Conviction(Tier1(0, signal, confidence,
                                                 signal_strength, 1, 100)),
                 tier |-> TierSizing(Conviction(Tier1(0, signal, confidence,
                                                      signal_strength, 1, 100)))]
  /\ UNCHANGED <<strategy, resumed, stopped, levq, feed, indicator, captain>>

NextSizing == CallTierSizing

SpecSizing == Init /\ [][NextSizing]_vars

\* ------------- the indicator over a long slide: the price rises, slides for
\* AllocFree cycles, then moves freely
MaxAllocBars == 38      \* cycle boundaries explored
AllocFree == 35         \* the first cycle whose quote is not prescribed

AllocMenu ==
  { Quote(200000, 202000, 198000, 200000, 1000),
    Quote(200000, 200000, 197000, 198000, 2000),
    Quote(200000, 203000, 200000, 202000, 1000),
    Quote(200000, 201000, 199000, 199000, 1000),
    Quote(200000, 210000, 200000, 208000, 3000) }

\* the quotes the environment may deliver in cycle k
AllocQuotes(k) ==
  IF k = 0 THEN { Quote(200000, 203000, 200000, 202000, 1000) }
  ELSE IF k = 1 THEN { Quote(200000, 210000, 200000, 208000, 3000) }
  ELSE IF k < AllocFree THEN { Quote(200000, 200000, 197000, 198000, 2000) }
  ELSE AllocMenu

AllocBoundary ==
  /\ indicator.log.raised = ""
  /\ indicator.bar_index < MaxAllocBars
  /\ \E bar \in AllocQuotes(indicator.bar_index) :
        indicator' = indicator_on_bar(indicator, IndStamp(bar, IndTm(indicator) + 1))
  /\ UNCHANGED <<strategy, resumed, stopped, levq, call, feed, captain>>

NextAlloc == AllocBoundary

SpecAlloc == Init /\ [][NextAlloc]_vars

\* ------------------------------------ the Captain over two trading sessions
MaxCaptainBars == 3     \* cycle boundaries explored

Tag(date, time) == [date |-> date, time |-> time]

\* the time tags of the cycles the environment may open
CaptainTags ==
  { Tag(20240102,  93000), Tag(20240102, 144500), Tag(20240102, 145500),
    Tag(20240102, 210000), Tag(20240103,   5500) }

Scout(adx_value, di_plus, di_minus, upper_band, lower_band, conviction_oscillator) ==
  [adx_value |-> adx_value, di_plus |-> di_plus, di_minus |-> di_minus,
   upper_band |-> upper_band, lower_band |-> lower_band,
   conviction_oscillator |-> conviction_oscillator]

\* the records the environment may deliver: quotes, and Scout records that
\* read RIVER long, LAKE long and DEAD for basket 0, LAKE short and RIVER
\* short for basket 1
CaptainMenu ==
  { [ns |-> "global", basket |-> 0, close |-> 100],
    [ns |-> "global", basket |-> 1, close |-> 100],
    [ns |-> "private", basket |-> 0, scout |-> Scout(4500, 30, 10, 110, 90, 10000)],
    [ns |-> "private", basket |-> 0, scout |-> Scout(2000, 20, 20, 120, 100, 10000)],
    [ns |-> "private", basket |-> 0, scout |-> Scout(3000, 20, 20, 110, 90, 10000)],
    [ns |-> "private", basket |-> 1, scout |-> Scout(2000, 20, 20, 100, 80, -20000)],
    [ns |-> "private", basket |-> 1, scout |-> Scout(4500, 10, 30, 110, 90, -20000)] }

\* the values the base class may give at a cycle boundary: a flat basket
\* keeps its value, and so does a portfolio with no position
CaptainMarks(c) ==
  { m \in [nv : {1200, 1000, 900}, basket_nv : [CB -> {100, 80}]] :
      /\ \A b \in CB : c.strategies[b].signal = 0
                         => m.basket_nv[b] = c.strategies[b].nv
      /\ (\A b \in CB : c.strategies[b].signal = 0) => m.nv = c.nv }

CaptainNoMarks(c) ==
  [nv |-> c.nv, basket_nv |-> [b \in CB |-> c.strategies[b].nv]]

CaptainRecord ==
  /\ \E bar \in CaptainMenu :
        captain' = captain_on_bar(captain,
                     bar @@
                       [tm |-> IF captain.timetag = NoTag
                               THEN Tag(20240102, 93000) ELSE captain.timetag],
                     CaptainNoMarks(captain))
  /\ UNCHANGED <<strategy, resumed, stopped, levq, call, feed, indicator>>

CaptainBoundary ==
  /\ captain.timetag # NoTag
  /\ captain.bar_index < MaxCaptainBars
  /\ \E tm \in CaptainTags, marks \in CaptainMarks(captain) :
        /\ TagLT(captain.timetag, tm)
        /\ captain' = captain_on_bar(captain,
                        [ns |-> "global", basket |-> 0, close |-> 100, tm |-> tm],
                        marks)
  /\ UNCHANGED <<strategy, resumed, stopped, levq, call, feed, indicator>>

NextCaptain == CaptainRecord \/ CaptainBoundary

SpecCaptain == Init /\ [][NextCaptain]_vars

\* ================================================================== claims

\* C5: for every conviction in [0,1], every tier label (an unknown one reads
\* the WEAK parameters), every chaos count, drawdown and daily loss,
\* calculate_leverage returns a value in [1.0, 15.0], and that value is: the
\* tier clamp of the base leverage, times the chaos derate, times the
\* drawdown derate, times the daily-loss derate, then floored at 1.0, then
\* capped at min(max_basket_leverage, max_leverage).
C5_LeverageRange ==
  LET q == levq
      p == IF q.tier = "STRONG" THEN [lo |-> 400, hi |-> 1000, m |-> 1286]
           ELSE IF q.tier = "MEDIUM" THEN [lo |-> 250, hi |-> 600, m |-> 1000]
           ELSE [lo |-> 150, hi |-> 400, m |-> 1000]
      base == 100 + (q.conviction * p.m) \div 1000
      clamp == IF base < p.lo THEN p.lo ELSE IF base > p.hi THEN p.hi ELSE base
      chaos == IF q.chaos_baskets >= 2 THEN 60
               ELSE IF q.chaos_baskets = 1 THEN 80 ELSE 100
      dd == IF q.portfolio_dd.n * 100 > 5 * q.portfolio_dd.d THEN 70
            ELSE IF q.portfolio_dd.n * 100 > 3 * q.portfolio_dd.d THEN 85 ELSE 100
      dl == IF q.daily_loss.n * 100 > 2 * q.daily_loss.d THEN 60
            ELSE IF q.daily_loss.n * 100 > 1 * q.daily_loss.d THEN 80 ELSE 100
      derated == (((((clamp * chaos) \div 100) * dd) \div 100) * dl) \div 100
      floored == IF derated < 100 THEN 100 ELSE derated
      cap == IF max_basket_leverage < max_leverage
             THEN max_basket_leverage ELSE max_leverage
  IN q.leverage # 0 =>
       /\ q.leverage >= 100
       /\ q.leverage <= 1500
       /\ q.leverage = IF floored > cap THEN cap ELSE floored

\* an unknown tier label under all three derates: the floor is what answers
C5_Witness ==
  /\ levq.tier = "OTHER"
  /\ levq.chaos_baskets >= 2
  /\ RatioGT(levq.portfolio_dd, 5, 100)
  /\ RatioGT(levq.daily_loss, 2, 100)
  /\ levq.leverage = 100

\* a step of on_bar that passed a cycle boundary
CycleStep == strategy'.bar_index = strategy.bar_index + 1

\* the reference price of a basket before the step: the cached signal's
\* close, the basket's price when none is cached
ReferencePrice(b) ==
  IF b \in DOMAIN strategy.tier1_signals
  THEN strategy.tier1_signals[b].close ELSE strategy.strategies[b].price

\* C2: in a cycle where, after the risk update, current_drawdown >= 10%
\* (equality included) or daily_loss >= 3%, every basket that held a position
\* is closed (direction 0) at its cached signal price, or at the basket price
\* when no signal is cached; no exit is evaluated, no entry attempted, no
\* rebalance check made and no metric recomputed in that cycle; and the
\* engine has moved on to the next cycle (time tag and bar index advanced).
C2_CircuitBreaker ==
  [][ ( /\ CycleStep
        /\ \/ strategy'.risk_manager.current_drawdown.n * 100
                >= 10 * strategy'.risk_manager.current_drawdown.d
           \/ strategy'.risk_manager.daily_loss.n * 100
                >= 3 * strategy'.risk_manager.daily_loss.d )
      => /\ \A b \in B :
              /\ strategy'.strategies[b].signal = 0
              /\ strategy.strategies[b].signal # 0
                   => strategy'.log.closed[b] = ReferencePrice(b)
              /\ strategy'.log.attempts[b] = << >>
              /\ strategy'.log.fit[b] = 0
         /\ strategy'.log.evaluated = {}
         /\ strategy'.total_trades_executed = strategy.total_trades_executed
         /\ ~strategy'.log.rebalance_checked
         /\ strategy'.rebalancer = strategy.rebalancer
         /\ ~strategy'.log.metrics
         /\ strategy'.active_positions = strategy.active_positions
         /\ strategy'.portfolio_exposure_pct = strategy.portfolio_exposure_pct
         /\ strategy'.basket_signal = strategy.basket_signal
         /\ strategy'.basket_pv = strategy.basket_pv
         /\ strategy'.timetag = strategy.timetag + 1
    ]_vars

\* the breaker has tripped on a drawdown of exactly 10% and closed a position
C2_Witness ==
  /\ strategy.log.tripped
  /\ strategy.risk_manager.current_drawdown.n * 100
       = 10 * strategy.risk_manager.current_drawdown.d
  /\ \E b \in B : strategy.log.closed[b] > 0

\* C3: within one _execute_entry whose first risk check is rejected, from
\* each attempt submitted to the risk gate to the next the size fraction
\* does not increase and the leverage does not increase.
C3_FallbackMonotone ==
  \A b \in B :
    LET a == strategy.log.attempts[b]
    IN \A i \in 1 .. (Len(a) - 1) :
         /\ a[i + 1][1] <= a[i][1]
         /\ a[i + 1][2] <= a[i][2]

\* C4: every leverage applied to a basket at entry (given to _fit_position,
\* stored in active_leverages) lies in [1.0, 15.0].
C4_BasketLeverage ==
  \A b \in B :
    /\ strategy.log.fit[b] # 0
         => (strategy.log.fit[b] >= 100 /\ strategy.log.fit[b] <= 1500)
    /\ strategy.active_leverages[b] >= 100
    /\ strategy.active_leverages[b] <= 1500

\* C6: a basket that is flat has its trailing stop inactive, peak price 0
\* and stop price 0, whichever way it became flat.
C6_FlatTrailingReset ==
  \A b \in B :
    strategy.strategies[b].signal = 0
      => /\ ~strategy.trailing_stop_manager.trailing_active[b]
         /\ strategy.trailing_stop_manager.peak_prices[b] = 0
         /\ strategy.trailing_stop_manager.trail_stops[b] = 0

\* C7: after every update call that leaves the trailing stop active (the
\* activating call included) the stop price is peak * (1 - 0.02) for a long
\* position and peak * (1 + 0.02) for a short one.
C7_StopFollowsPeak ==
  \A b \in strategy.log.evaluated :
    strategy.log.ts_after.trailing_active[b]
      => strategy.log.ts_after.trail_stops[b]
           = IF strategy.log.ts_type[b] = 1
             THEN strategy.log.ts_after.peak_prices[b] * 98
             ELSE strategy.log.ts_after.peak_prices[b] * 102

\* what the exit decision for basket b reads, taken from the state before the
\* cycle: position, cached signal, entry price, entry leverage
ExitFacts(b) ==
  LET pos == strategy.strategies[b].signal
      sd == strategy.tier1_signals[b]
      entry == strategy.entry_prices[b]
      lev == strategy.active_leverages[b]
      gain == IF entry > 0 /\ sd.close > 0 THEN (sd.close - entry) * pos ELSE 0
      target == IF lev >= 500 THEN 7 ELSE IF lev >= 300 THEN 8 ELSE 10
      stop == IF lev <= 200 THEN 30 ELSE IF lev <= 400 THEN 25
              ELSE IF lev <= 600 THEN 20 ELSE IF lev <= 1000 THEN 15 ELSE 10
      losing == gain * 100 < (-1) * entry
  IN [ trailing   |-> TrailingStopManager_check(strategy'.log.ts_after, b,
                                                sd.close, pos),
       target     |-> gain * 100 >= target * entry,
       protect    |-> /\ gain * 100 >= 5 * entry
                      /\ sd.confidence * 6 + sd.signal_strength * 4 < 400,
       stop       |-> entry > 0 /\ sd.close > 0 /\ (-gain) * 1000 >= stop * entry,
       reversal   |-> sd.signal * pos < 0,
       hard_floor |-> sd.confidence < 20,
       soft_floor |-> sd.confidence < 30 /\ losing,
       chaos      |-> /\ Cardinality({x \in DOMAIN strategy.tier1_signals :
                                        strategy.tier1_signals[x].regime = 4}) >= 2
                      /\ losing ]

\* the baskets _should_exit decides for in a cycle: in position, signal cached
ExitCandidates ==
  {b \in B : strategy.strategies[b].signal # 0 /\ b \in DOMAIN strategy.tier1_signals}

C8_LongStopMonotone ==
  \A b \in strategy.log.evaluated :
    (strategy.log.ts_before.trailing_active[b] /\ strategy.log.ts_type[b] = 1)
      => strategy.log.ts_after.trail_stops[b] >= strategy.log.ts_before.trail_stops[b]

\* C9: with the trailing stop active and the position short, an update call
\* does not raise the stop price left by the previous update call (no reset
\* in between).
C9_ShortStopMonotone ==
  \A b \in strategy.log.evaluated :
    (strategy.log.ts_before.trailing_active[b] /\ strategy.log.ts_type[b] = -1)
      => strategy.log.ts_after.trail_stops[b] <= strategy.log.ts_before.trail_stops[b]

\* C1: the run that was stopped, persisted, restored and resumed returns from
\* every on_bar call the same output records as the run that was never
\* stopped.
C1_ReplayDeterminism == resumed.results = strategy.results

\* C11: when _execute_entry opens a position for a cached signal of
\* direction d, the direction it submits to the basket is d (long for 1,
\* short for -1).
C11_EntryDirection ==
  \A b \in B :
    strategy.log.direction[b] # 0 =>
      /\ b \in DOMAIN strategy.tier1_signals
      /\ strategy.log.direction[b] = strategy.tier1_signals[b].signal

\* C12: a basket for which no upstream-signal record arrived during the
\* cycle is neither entered nor exited at the cycle's end: its position,
\* leverage, entry price and trailing-stop state are as before (cycles in
\* which the circuit breaker trips do no signal evaluation and are left out).
C12_DataUnavailable ==
  [][ (strategy'.log.cycle /\ ~strategy'.log.tripped) =>
        \A b \in B \ feed.arrived :
          /\ strategy'.strategies[b].signal = strategy.strategies[b].signal
          /\ strategy'.strategies[b].leverage = strategy.strategies[b].leverage
          /\ strategy'.entry_prices[b] = strategy.entry_prices[b]
          /\ strategy'.active_leverages[b] = strategy.active_leverages[b]
          /\ strategy'.trailing_stop_manager.trailing_active[b]
               = strategy.trailing_stop_manager.trailing_active[b]
          /\ strategy'.trailing_stop_manager.peak_prices[b]
               = strategy.trailing_stop_manager.peak_prices[b]
          /\ strategy'.trailing_stop_manager.trail_stops[b]
               = strategy.trailing_stop_manager.trail_stops[b] ]_vars

\* C13: every upstream-signal record delivered to on_bar is in the signal
\* cache afterwards, and every raw-market record has reached its basket,
\* whether it is the first or a later record of its time stamp.
C13_RecordConsumption ==
  [][ /\ feed'.bar.ns = "private" =>
           /\ feed'.bar.basket \in DOMAIN strategy'.tier1_signals
           /\ strategy'.tier1_signals[feed'.bar.basket]
                = [ close           |-> feed'.bar.close,
                    signal          |-> feed'.bar.signal,
                    confidence      |-> feed'.bar.confidence,
                    regime          |-> feed'.bar.regime,
                    signal_strength |-> feed'.bar.signal_strength ]
      /\ feed'.bar.ns = "global" =>
           strategy'.strategies[feed'.bar.basket].price = feed'.bar.close ]_vars

\* C14: on_bar returns exactly one output record for every record that
\* closes a cycle and none for any other record, and the record carries the
\* index of the cycle just closed (one more than the record before it).
C14_OutputCadence ==
  /\ strategy.log.cycle =>
       /\ Len(strategy.results) = 1
       /\ strategy.results[1].bar_index = strategy.bar_index - 1
  /\ ~strategy.log.cycle => strategy.results = << >>

\* C15: in every output record, active_positions is the number of baskets
\* holding a position at the end of the cycle just processed, and
\* avg_active_leverage and leverage_weighted_exposure are computed from
\* those baskets, cycles in which the circuit breaker tripped included.
C15_OutputMetricsCurrent ==
  strategy.results # << >> =>
    LET active == InPosition(strategy)
        record == strategy.results[1]
    IN /\ record.active_positions = Cardinality(active)
       /\ record.avg_active_leverage =
            IF active = {} THEN 100
            ELSE SumOver(strategy.active_leverages, active) \div Cardinality(active)
       /\ record.leverage_weighted_exposure =
            check_leverage_weighted_exposure(strategy, active, strategy.pv)

\* C16: after every update_peak_tracking(pv) call the peak is the larger of
\* the old peak and pv and current_drawdown equals (peak - pv) / peak for
\* that updated peak; no call of update_peak_tracking or
\* update_daily_tracking lowers peak_portfolio_value.
C16_PeakAndDrawdown ==
  [][ /\ strategy'.risk_manager.peak_portfolio_value
           >= strategy.risk_manager.peak_portfolio_value
      /\ call'.op = "update_peak_tracking" =>
           LET pv == call'.portfolio_value
               peak == Max(strategy.risk_manager.peak_portfolio_value, pv)
               dd == strategy'.risk_manager.current_drawdown
           IN /\ strategy'.risk_manager.peak_portfolio_value = peak
              /\ dd.d > 0
              /\ dd.n * peak = (peak - pv) * dd.d ]_vars

\* a call that measures a drawdown against a peak raised by an earlier call
C16_Witness ==
  /\ call.op = "update_peak_tracking"
  /\ strategy.risk_manager.peak_portfolio_value > INITIAL_CAPITAL
  /\ call.portfolio_value < strategy.risk_manager.peak_portfolio_value
  /\ strategy.risk_manager.current_drawdown.n > 0

\* C17: whatever non-negative portfolio values are fed to
\* update_peak_tracking and update_daily_tracking, current_drawdown and
\* daily_loss both lie in [0, 1].
C17_RiskStateRange ==
  LET dd == strategy.risk_manager.current_drawdown
      dl == strategy.risk_manager.daily_loss
  IN /\ 0 <= dd.n /\ dd.n <= dd.d
     /\ 0 <= dl.n /\ dl.n <= dl.d

\* the three checks of the risk gate, as the limits state them
C18_ExposureOk(c) ==
  \/ c.portfolio_state.total_value <= 0
  \/ (c.portfolio_state.total_exposure * 100000 + c.proposed_size) * 100
       <= 90 * c.portfolio_state.total_value * 100000

C18_DrawdownOk(rm) == rm.current_drawdown.n * 100 < 10 * rm.current_drawdown.d

C18_DailyLossOk(rm) == rm.daily_loss.n * 100 < 3 * rm.daily_loss.d

\* C18: can_enter_position accepts exactly when (total_exposure +
\* proposed_size) / total_value <= 0.90 (taken as 0 when total_value <= 0),
\* current_drawdown < 0.10 and daily_loss < 0.03; otherwise its reason names
\* the first of these checks that failed; and the call changes no field of
\* the RiskManager.
C18_GateDecision ==
  [][ call'.op = "can_enter_position" =>
        /\ strategy' = strategy
        /\ call'.result = "OK" <=>
             /\ C18_ExposureOk(call')
             /\ C18_DrawdownOk(strategy.risk_manager)
             /\ C18_DailyLossOk(strategy.risk_manager)
        /\ call'.result = "Total exposure exceeds limit" <=>
             ~C18_ExposureOk(call')
        /\ call'.result = "Portfolio drawdown exceeds limit" <=>
             /\ C18_ExposureOk(call')
             /\ ~C18_DrawdownOk(strategy.risk_manager)
        /\ call'.result = "Daily loss exceeds limit" <=>
             /\ C18_ExposureOk(call')
             /\ C18_DrawdownOk(strategy.risk_manager)
             /\ ~C18_DailyLossOk(strategy.risk_manager) ]_vars

\* an exposure of exactly 90% passes the first check, and the drawdown of
\* exactly 10% is the reason given although the daily loss fails as well
C18_Witness ==
  /\ call.op = "can_enter_position"
  /\ call.portfolio_state.total_value = 100
  /\ call.portfolio_state.total_exposure * 100000 + call.proposed_size = 9000000
  /\ strategy.risk_manager.current_drawdown.n * 100
       = 10 * strategy.risk_manager.current_drawdown.d
  /\ ~C18_DailyLossOk(strategy.risk_manager)
  /\ call.result = "Portfolio drawdown exceeds limit"

\* baskets for which every evaluation of the risk gate in the last cycle,
\* the final fallback included, was rejected
C19_Blocked(s) ==
  {b \in B : /\ s.log.attempts[b] # << >>
             /\ \A i \in 1..Len(s.log.attempts[b]) : s.log.attempts[b][i][3] # "OK"}

\* baskets opened in the last cycle
C19_Opened(s) == {b \in B : s.log.fit[b] # 0}

C20_LifecycleHooks ==
  [][ /\ call'.op = "on_tradeday_begin" =>
           /\ strategy'.risk_manager.daily_start_value = strategy.pv
           /\ strategy'.risk_manager.daily_loss = Zero
           /\ strategy'.risk_manager.peak_portfolio_value
                = strategy.risk_manager.peak_portfolio_value
           /\ strategy'.risk_manager.current_drawdown
                = strategy.risk_manager.current_drawdown
      /\ call'.op = "on_tradeday_end" =>
           /\ strategy'.risk_manager = strategy.risk_manager
           /\ strategy'.trailing_stop_manager = strategy.trailing_stop_manager
           /\ strategy'.tier1_signals = strategy.tier1_signals
           /\ strategy'.entry_prices = strategy.entry_prices
           /\ strategy'.active_leverages = strategy.active_leverages ]_vars

\* a day begun below the peak: the day's start is the portfolio value, the
\* daily loss is 0 and the drawdown measured before is still there
C20_Witness ==
  /\ call.op = "on_tradeday_begin"
  /\ strategy.risk_manager.daily_start_value = strategy.pv
  /\ strategy.pv # INITIAL_CAPITAL
  /\ strategy.risk_manager.daily_loss = Zero
  /\ strategy.risk_manager.peak_portfolio_value > strategy.pv
  /\ strategy.risk_manager.current_drawdown.n > 0

\* C21: no cycle of the portfolio engine raises an unhandled error, whatever
\* the cached signal values, prices and basket values are, a basket value of
\* zero and a zero price included.
C21_NoCrash == strategy.log.raised = ""

\* C22: after every processed bar the regime is one of 1, 2, 3, 4, and in
\* every state in which ATR > 1.5 * mean_atr or bb_width_pct > 5.0 the
\* regime is Chaos (4), also when a trend predicate holds as well.
C22_ChaosDominant ==
  /\ indicator.regime \in {1, 2, 3, 4}
  /\ (\/ 10 * indicator.atr > 15 * indicator.mean_atr
      \/ indicator.bb_width_pct > 5 * IScale)
       => indicator.regime = 4

\* a bar after which the bands are wider than 5% while every condition of
\* the strong uptrend holds
C22_Witness ==
  /\ indicator.log.cycle /\ ~indicator.log.seeded
  /\ indicator.bb_width_pct > 5 * IScale
  /\ indicator.ema_12 > indicator.ema_26 /\ indicator.ema_26 > indicator.ema_50
  /\ indicator.macd > indicator.macd_signal /\ indicator.macd_histogram > 0
  /\ indicator.close > indicator.ema_26
  /\ 10 * indicator.atr <= 12 * indicator.mean_atr
  /\ indicator.regime = 4

\* C23: in every indicator state from initialization on, rsi lies in
\* [0, 100], and rsi = 100 holds exactly when loss_ema = 0.
C23_RsiInvariant ==
  indicator.initialized =>
    /\ 0 <= indicator.rsi /\ indicator.rsi <= 100 * IScale
    /\ indicator.rsi = 100 * IScale <=> indicator.loss_ema = 0

\* C24: when the indicator initializes, its three EMAs, the Bollinger mean
\* and the previous close equal the close of the first bar delivered (RSI
\* 50, variance 0), and the second delivered bar is the first one the EMA
\* update is applied to: after it the fast EMA is alpha * second +
\* (1 - alpha) * first with alpha = 2/13.
C24_FirstBarSeeding ==
  /\ indicator.log.seeded =>
       /\ indicator.ema_12 = feed.first /\ indicator.ema_26 = feed.first
       /\ indicator.ema_50 = feed.first /\ indicator.bb_mean = feed.first
       /\ indicator.prev_close = feed.first
       /\ indicator.rsi = 50 * IScale /\ indicator.bb_variance = 0
  /\ (feed # NoFeed /\ feed.n = 2 /\ indicator.log.cycle) =>
       indicator.ema_12 = Ema(12, feed.second, feed.first)

\* C25: no output record is emitted for the cycle in which the indicator
\* initializes its state; at every later cycle boundary exactly one record
\* is emitted, and none between boundaries.
C25_IndicatorCadence ==
  IF indicator.log.cycle /\ ~indicator.log.seeded
  THEN Len(indicator.results) = 1
  ELSE indicator.results = << >>

\* the second boundary: the first record comes out
C25_Witness ==
  /\ indicator.log.cycle /\ ~indicator.log.seeded
  /\ indicator.bar_index = 2
  /\ Len(indicator.results) = 1
  /\ indicator.results[1].bar_index = 1

\* C28: after initialization and after every later bar bb_upper >=
\* bb_middle >= bb_lower: the standard deviation of the bands and the
\* accumulated sum of squared deviations bb_m2 are never negative.
C28_BollingerOrdering ==
  indicator.initialized =>
    /\ indicator.bb_upper >= indicator.bb_middle
    /\ indicator.bb_middle >= indicator.bb_lower
    /\ indicator.bb_std_dev >= 0
    /\ indicator.bb_m2 >= 0
    /\ indicator.log.raised = ""

\* a close below the running mean after two earlier samples: the bands are
\* apart
C28_Witness ==
  /\ indicator.log.cycle /\ indicator.bb_n >= 3
  /\ indicator.close < indicator.bb_mean
  /\ indicator.bb_m2 > 0
  /\ indicator.bb_upper > indicator.bb_middle
  /\ indicator.bb_middle > indicator.bb_lower

\* some basket's share of the portfolio value differs from the target share
\* of 25% by more than 10 percentage points
C26_Drifted ==
  \E b \in B :
     \/ 100 * strategy'.strategies[b].pv > 35 * strategy'.pv
     \/ 100 * strategy'.strategies[b].pv < 15 * strategy'.pv

\* C26: the rebalance check of a cycle triggers exactly when 96 or more bars
\* have passed since last_rebalance_bar or some basket's share is more than
\* 0.10 away from its target share; a trigger sets last_rebalance_bar to the
\* current bar index and nothing else does, so after a trigger at bar b no
\* time-based trigger occurs before bar b + 96.
C26_RebalanceTrigger ==
  [][strategy'.log.rebalance_checked =>
       /\ strategy'.log.rebalanced <=>
            \/ strategy.bar_index - strategy.rebalancer.last_rebalance_bar >= 96
            \/ C26_Drifted
       /\ strategy'.rebalancer.last_rebalance_bar =
            IF strategy'.log.rebalanced THEN strategy.bar_index
            ELSE strategy.rebalancer.last_rebalance_bar]_vars

\* a time-based trigger exactly 96 bars after a deviation-based one
C26_Witness ==
  /\ strategy.log.rebalanced
  /\ strategy.bar_index >= 98
  /\ strategy.rebalancer.last_rebalance_bar = strategy.bar_index - 1
  /\ \A b \in B : /\ 100 * strategy.strategies[b].pv <= 35 * strategy.pv
                  /\ 100 * strategy.strategies[b].pv >= 15 * strategy.pv

\* C27: a triggered rebalance is advisory: it changes no basket's position
\* direction, leverage, allocated capital, entry price or trailing-stop
\* state, only last_rebalance_bar; the action computed for a basket is
\* "reduce" exactly when its share exceeds the target of 25% by more than 10
\* points and "increase" exactly when it is below by more than 10 points,
\* with value |deviation| * portfolio value.
C27_AdvisoryRebalance ==
  [][(strategy'.log.rebalanced /\ ~strategy'.log.cycle) =>
       /\ [strategy' EXCEPT !.log = strategy.log,
                            !.rebalancer.last_rebalance_bar =
                               strategy.rebalancer.last_rebalance_bar] = strategy
       /\ \A b \in B :
            /\ strategy'.log.actions[b].type = "reduce"
                 <=> 100 * strategy.strategies[b].pv > 35 * strategy.pv
            /\ strategy'.log.actions[b].type = "increase"
                 <=> 100 * strategy.strategies[b].pv < 15 * strategy.pv
            /\ strategy'.log.actions[b].type \in {"reduce", "increase"} =>
                 strategy'.log.actions[b].value =
                   Abs(100 * strategy.strategies[b].pv - 25 * strategy.pv) \div 100]_vars

\* a triggered rebalance with a basket in position above its share and a
\* basket below its share
C27_Witness ==
  /\ strategy.log.rebalanced /\ ~strategy.log.cycle
  /\ strategy.strategies[0].signal # 0
  /\ strategy.log.actions[0].type = "reduce"
  /\ strategy.log.actions[1].type = "increase"
  /\ strategy.log.actions[0].value > 0

\* the stop-loss percentage of the claim's table, in thousandths
C29_StopPct(leverage) ==
  IF leverage <= 200 THEN 30
  ELSE IF leverage <= 400 THEN 25
  ELSE IF leverage <= 600 THEN 20
  ELSE IF leverage <= 1000 THEN 15
  ELSE 10

\* basket b is in position with a cached signal, and at the cached close its
\* loss from the entry price is at least the stop-loss percentage
C29_StopHit(b) ==
  /\ strategy.strategies[b].signal # 0
  /\ b \in DOMAIN strategy.tier1_signals
  /\ strategy.entry_prices[b] > 0
  /\ IF strategy.strategies[b].signal = 1
     THEN (strategy.entry_prices[b] - strategy.tier1_signals[b].close) * 1000
            >= C29_StopPct(strategy.active_leverages[b]) * strategy.entry_prices[b]
     ELSE (strategy.tier1_signals[b].close - strategy.entry_prices[b]) * 1000
            >= C29_StopPct(strategy.active_leverages[b]) * strategy.entry_prices[b]

C29_ProcessedNormally ==
  strategy'.log.cycle /\ ~strategy'.log.tripped /\ strategy'.log.raised = ""

\* C29 as stated: in a cycle processed normally, a basket in position with a
\* cached signal whose loss at the cached close is at least the stop-loss
\* percentage of its active leverage is flat at the end of the cycle.
C29_StopLossAnyClose ==
  [][C29_ProcessedNormally =>
       \A b \in B : C29_StopHit(b) => strategy'.strategies[b].signal = 0]_vars

\* C29: the same for a cached close above zero.
C29_StopLossGuarantee ==
  [][C29_ProcessedNormally =>
       \A b \in B :
          (C29_StopHit(b) /\ strategy.tier1_signals[b].close > 0)
            => strategy'.strategies[b].signal = 0]_vars

\* a position entered at 100 with more than 6x leverage and closed by the
\* stop-loss at 98, a loss of 2%
C29_Witness ==
  /\ strategy.log.cycle /\ ~strategy.log.tripped
  /\ strategy.log.exit_reason[0] = "stop_loss"
  /\ 0 \in DOMAIN strategy.tier1_signals
  /\ strategy.tier1_signals[0].close = 98
  /\ strategy.strategies[0].signal = 0

\* C30: a basket is exited with reason "trailing_stop" only in a cycle in
\* which the price is at least 2% against the position from the most
\* favorable price seen since the trailing stop was activated (price <=
\* 0.98 * peak for a long, price >= 1.02 * peak for a short), and never in
\* the cycle in which the trailing stop is activated.
C30_TrailingNeedsRetrace ==
  \A b \in B :
    strategy.log.exit_reason[b] = "trailing_stop" =>
      /\ strategy.log.ts_before.trailing_active[b]
      /\ b \in DOMAIN strategy.tier1_signals
      /\ IF strategy.log.ts_type[b] = 1
         THEN 100 * strategy.tier1_signals[b].close
                <= 98 * strategy.log.ts_after.peak_prices[b]
         ELSE 100 * strategy.tier1_signals[b].close
                >= 102 * strategy.log.ts_after.peak_prices[b]

\* C31: in one cycle a basket is exited or entered but never both; an entry
\* is executed only for a basket that is flat at the start of its evaluation
\* and whose cached signal has direction # 0, confidence >= 0.20 and
\* strength >= 0.15; a basket that exits in a cycle is flat at its end.
C31_OneTransition ==
  [][CycleStep =>
       \A b \in B :
          /\ ~(strategy'.log.exit_reason[b] # "" /\ strategy'.log.attempts[b] # << >>)
          /\ ~(strategy'.log.exit_reason[b] # "" /\ strategy'.log.direction[b] # 0)
          /\ (strategy'.log.attempts[b] # << >> \/ strategy'.log.direction[b] # 0) =>
               /\ strategy.strategies[b].signal = 0
               /\ b \in DOMAIN strategy.tier1_signals
               /\ strategy.tier1_signals[b].signal # 0
               /\ strategy.tier1_signals[b].confidence >= 20
               /\ strategy.tier1_signals[b].signal_strength >= 15
          /\ strategy'.log.exit_reason[b] # "" =>
               /\ strategy.strategies[b].signal # 0
               /\ strategy'.strategies[b].signal = 0
          /\ (strategy.strategies[b].signal # 0 /\ strategy'.strategies[b].signal # 0)
               => strategy'.strategies[b].signal = strategy.strategies[b].signal]_vars

\* a basket exited in a cycle in which its cached signal passes every entry
\* threshold: it stays flat
C31_Witness ==
  /\ strategy.log.cycle
  /\ strategy.log.exit_reason[0] # ""
  /\ 0 \in DOMAIN strategy.tier1_signals
  /\ _should_enter(strategy.tier1_signals[0])
  /\ strategy.strategies[0].signal = 0
  /\ strategy.log.attempts[0] = << >>


\* C32: for every conviction = 0.6*confidence + 0.4*signal_strength that
\* passes the entry thresholds (signal != 0, confidence >= 0.20,
\* signal_strength >= 0.15), the size fraction chosen by _execute_entry
\* before the chaos reduction and the fallback chain lies in [0.80, 1.00]
\* when conviction >= 0.55 (STRONG), in [0.40, 0.60] when
\* 0.35 <= conviction < 0.55 (MEDIUM), and in [0.20, 0.30] otherwise (WEAK).
C32_TieredSizing ==
  (call.op = "_execute_entry" /\ call.enters) =>
     IF call.conviction >= 550
     THEN call.tier.tier_name = "STRONG"
          /\ call.tier.size_pct >= 800 /\ call.tier.size_pct <= 1000
     ELSE IF call.conviction >= 350
     THEN call.tier.tier_name = "MEDIUM"
          /\ call.tier.size_pct >= 400 /\ call.tier.size_pct <= 600
     ELSE call.tier.tier_name = "WEAK"
          /\ call.tier.size_pct >= 200 /\ call.tier.size_pct <= 300


\* C33: after the indicator emits an exit signal (-1) at a bar and is flat,
\* the next processed bar (cooldown_bars = 1) does not carry a buy
\* signal (+1).
C33_Cooldown ==
  [][(/\ indicator.signal = -1
      /\ indicator.contracts_held = 0
      /\ indicator.last_exit_bar = indicator.bar_index - 1
      /\ indicator.cooldown_bars = 1
      /\ indicator'.log.cycle
      /\ indicator'.log.raised = "")
       => indicator'.signal # 1]_vars


\* C34: after every processed bar the indicator's simulated position value
\* contracts_held * close is at most 70% of portfolio_value (at least 30% is
\* held in cash), and cash is never negative.
C34_MaxAllocation ==
  (indicator.log.cycle /\ indicator.log.raised = "") =>
     /\ 10 * Money(indicator.contracts_held, indicator.close)
          <= 7 * indicator.portfolio_value
     /\ indicator.cash >= 0


\* C35: on every processed bar of the indicator: a sell signal (-1) is
\* emitted only when contracts_held > 0 at the start of the bar, and leaves
\* contracts_held = 0 and entry_price = 0; a buy signal (+1) is emitted only
\* when the addition fits the 70% allocation and the cash, and makes
\* contracts_held grow by exactly contracts_to_add (50 or 100), paid from
\* cash; a hold (0) leaves contracts_held and cash unchanged.
C35_LongOnlyAccounting ==
  [][(indicator'.log.cycle /\ indicator'.log.raised = "") =>
       /\ indicator'.signal \in {-1, 0, 1}
       /\ indicator'.signal = -1 =>
            /\ indicator.contracts_held > 0
            /\ indicator'.contracts_held = 0
            /\ indicator'.entry_price = 0
       /\ indicator'.signal = 1 =>
            /\ indicator'.contracts_to_add \in {50, 100}
            /\ indicator'.contracts_held
                 = indicator.contracts_held + indicator'.contracts_to_add
            /\ 10 * Money(indicator'.contracts_held, indicator'.close)
                 <= 7 * (indicator.cash
                           + Money(indicator.contracts_held, indicator'.close))
            /\ indicator.cash
                 >= Money(indicator'.contracts_to_add, indicator'.close)
            /\ indicator'.cash
                 = indicator.cash
                     - Money(indicator'.contracts_to_add, indicator'.close)
       /\ indicator'.signal = 0 =>
            /\ indicator'.contracts_held = indicator.contracts_held
            /\ indicator'.cash = indicator.cash]_vars

C35_Witness ==
  /\ indicator.log.cycle
  /\ indicator.log.raised = ""
  /\ indicator.signal = 1
  /\ indicator.contracts_to_add = 100
  /\ indicator.contracts_held = 100
  /\ indicator.last_exit_bar >= 0


\* C40: on every processed bar after the seeding one, the indicator's sum of
\* squared deviations bb_m2 does not decrease; and once the sample count
\* has reached the cap of 20, neither the variance bb_m2 / 19 nor the band
\* width bb_upper - bb_lower decreases.
C40_BollingerNeverDecays ==
  [][(indicator'.log.cycle /\ ~indicator'.log.seeded) =>
       /\ indicator'.bb_m2 >= indicator.bb_m2
       /\ indicator.bb_n >= 20 =>
            /\ indicator'.bb_variance = indicator'.bb_m2 \div 19
            /\ indicator'.bb_variance >= indicator.bb_variance
            /\ indicator'.bb_upper - indicator'.bb_lower
                 >= indicator.bb_upper - indicator.bb_lower]_vars

C40_Witness ==
  /\ indicator.log.cycle
  /\ indicator.bb_n = MaxAllocBars
  /\ indicator.close = 208000
  /\ indicator.bb_variance > 0
  /\ indicator.bb_variance = indicator.bb_m2 \div 19


C38_DrawdownLockout ==
  [][(/\ RatioGE(strategy.risk_manager.current_drawdown, max_portfolio_drawdown, 100)
      /\ \A b \in B : strategy.strategies[b].signal = 0
      /\ strategy'.pv * 100
           <= (100 - max_portfolio_drawdown) * strategy.risk_manager.peak_portfolio_value)
       => /\ strategy'.risk_manager.peak_portfolio_value
               = strategy.risk_manager.peak_portfolio_value
          /\ RatioGE(strategy'.risk_manager.current_drawdown,
                     max_portfolio_drawdown, 100)
          /\ \A b \in B : strategy'.strategies[b].signal = 0
          /\ strategy'.total_trades_executed = strategy.total_trades_executed
          /\ CycleStep =>
               /\ strategy'.log.tripped
               /\ ~strategy'.log.processed
               /\ \A b \in B : strategy'.log.attempts[b] = << >>]_vars

C38_Witness ==
  /\ strategy.log.cycle
  /\ strategy.log.tripped
  /\ \A b \in B : strategy.log.closed[b] = -1
  /\ \A b \in B : strategy.strategies[b].signal = 0
  /\ strategy.risk_manager.daily_loss = Zero
  /\ strategy.risk_manager.daily_start_value = strategy.pv
  /\ RatioGE(strategy.risk_manager.current_drawdown, max_portfolio_drawdown, 100)
  /\ \E b \in DOMAIN strategy.tier1_signals : _should_enter(strategy.tier1_signals[b])


\* C36: in every cycle of the Captain whose portfolio drawdown exceeds 20%
\* all baskets are flat at the end of the cycle; and when the drawdown was
\* already above 20% before the cycle and still is, no basket is given a
\* position during the cycle (no open-then-flatten within a cycle).
C36_RiskOff ==
  [][(captain'.log.cycle /\ RatioGT(captain'.drawdown, PORTFOLIO_DD_FLATTEN, 100)) =>
       /\ \A b \in CB : captain'.strategies[b].signal = 0
       /\ RatioGT(captain.drawdown, PORTFOLIO_DD_FLATTEN, 100)
            => captain'.log.opened = {}]_vars

\* C37: after a cycle whose time tag falls within the 10 minutes before a
\* session close (14:50-15:00, 23:50-00:00, 00:50-01:00) no basket holds a
\* position that was opened while its instrument was in LAKE regime,
\* whatever the regime is at that cycle; and a basket whose regime is DEAD
\* in a cycle is flat after that cycle.
C37_LakeIntradayOnly ==
  captain.log.cycle =>
     /\ captain.log.closing =>
          \A b \in CB : ~(/\ captain.strategies[b].signal # 0
                          /\ captain.entry_regime[b] = "LAKE")
     /\ \A b \in CB : captain.log.regime[b] = "DEAD"
                        => captain.strategies[b].signal = 0

====
